---- MODULE Spec2Model ----
(***************************************************************************)
(* Event-sourced core of the cultural intelligence backend:                *)
(*   backend/app/services/event_store.py     (EventStore)                  *)
(*   backend/app/services/cqrs.py            (command handlers, mediator)  *)
(*   backend/app/services/event_handlers.py  (EventDispatcher)             *)
(*   backend/app/services/projections.py     (read-model projections)      *)
(*                                                                         *)
(* Spec      : calls run one at a time (each call is one step).            *)
(* SpecProj  : stored events are folded into the projections and the       *)
(*             projections are rebuilt; no projection raises.              *)
(* SpecMgr   : the projection manager is handed the newest event while     *)
(*             some projections raise.                                     *)
(* SpecConc  : append_event calls of several callers interleave at their   *)
(*             await points (version read / commit).                       *)
(***************************************************************************)
EXTENDS Integers, Sequences, FiniteSets, TLC

(* ------------------------------ bounds --------------------------------- *)
MaxEvents == 3          \* events the log may hold (Spec, SpecConc)
MaxProjEvents == 2      \* events the log may hold (SpecProj)
MaxEntries == 2         \* entries a read-model list may hold
MaxSnapshots == 1       \* rows event_snapshots may hold
MaxNotifications == 2   \* notifications created (SpecCreate)
MaxQueued == 1          \* notifications created (SpecDeliver)
MaxTime == 20           \* the clock's last reading, in units of 30 seconds
MaxFailures == 1        \* failing broker calls (SpecCycle)
MaxArrivals == 2         \* notifications created (SpecLive)
MaxStreamEvents == 2    \* messages handed to the stream processor (SpecStream)
MaxSweeps == 1          \* sweeps of the pattern analysis loop
MaxStarts == 2          \* start() calls on the two services together (SpecStop)
MaxLen == 3             \* events drawn freely in a stream processor input

Aggregates == {"u1", "u2"}
Projected == {"u1"}     \* aggregates whose events are folded (SpecProj)
Procs == {"p1", "p2"}
Scores == {250, 755}    \* scores in thousandths (0.250, 0.755)
Versions == 0..(MaxEvents + 1)

(* ------------------------- models/events.py ---------------------------- *)
SOCIAL_DATA_INGESTED == "social_data_ingested"
CULTURAL_PATTERN_DETECTED == "cultural_pattern_detected"
DIVERSITY_SCORE_UPDATED == "diversity_score_updated"
RECOMMENDATION_GENERATED == "recommendation_generated"
CULTURAL_MILESTONE_REACHED == "cultural_milestone_reached"
INFLUENCE_NETWORK_UPDATED == "influence_network_updated"
BLIND_SPOT_IDENTIFIED == "blind_spot_identified"
PREDICTION_MADE == "prediction_made"
USER_INTERACTION == "user_interaction"

EventType ==
    { SOCIAL_DATA_INGESTED, CULTURAL_PATTERN_DETECTED, DIVERSITY_SCORE_UPDATED,
      RECOMMENDATION_GENERATED, CULTURAL_MILESTONE_REACHED,
      INFLUENCE_NETWORK_UPDATED, BLIND_SPOT_IDENTIFIED, PREDICTION_MADE,
      USER_INTERACTION }

\* event_data abstracted to the fields the folds read: val stands for the
\* payload (new_score, pattern_type, milestone_type, nodes, ...), old for
\* old_score, valid for "validates against its pydantic event model".
EventData(val, old, valid) == [val |-> val, old |-> old, valid |-> valid]

\* A row of cultural_events.  cmd is a history field: the command object
\* whose handler appended the row (NoCommand for a direct append_event call).
CulturalEvent(id, agg, type, version, data, at, cmd) ==
    [ event_id |-> id, aggregate_id |-> agg, event_type |-> type,
      version |-> version, event_data |-> data, occurred_at |-> at,
      cmd |-> cmd ]

\* A command object (cqrs.py: Command subclasses): its class, user_id, the
\* payload it carries (new_score for a diversity update) and whether that
\* payload validates against the event's pydantic model.
Command(ctype, user, val, valid) ==
    [ctype |-> ctype, user_id |-> user, val |-> val, valid |-> valid]

NoCommand == Command("none", "none", 0, TRUE)

NoEvent == CulturalEvent(0, "none", "none", 0, EventData(0, 0, TRUE), 0, NoCommand)

VARIABLES
    log,              \* table cultural_events, in insertion order
    profiles,         \* table cultural_profiles: aggregate -> row or NoProfile
    timeline_cache,   \* CulturalTimelineProjection.timeline_cache
    network_cache,    \* InfluenceNetworkProjection.network_cache
    proc,             \* in-flight append_event calls (SpecConc)
    lastOp,           \* history: the call that just returned and its outcome
    rebuild,          \* the rebuild_projection call in flight (SpecRace)
    snapshots,        \* table event_snapshots, in insertion order
    mediator,         \* CQRSMediator: the command and query classes registered
    notification_queues,     \* CulturalNotificationService.notification_queues
    user_preferences,        \* .user_preferences: subscriber -> type -> enabled
    last_notification_time,  \* .last_notification_time: subscriber -> priority -> time
    stats,                   \* .stats
    now,                     \* datetime.utcnow(), in units of 30 seconds
    loop,                    \* position of _notification_delivery_loop
    nhist,                   \* history of the notification service's calls
    stream,                  \* a stream processor function's input and result
    fetched,                 \* history: the last get_events call and what it returned
    event_windows,           \* CulturalStreamProcessor.event_windows: keys in insertion
                             \* order, and subscriber -> deque
    pattern_cache,           \* .pattern_cache: subscriber -> patterns
    stream_stats,            \* CulturalStreamProcessor.stats
    sweep,                   \* position of _pattern_analysis_loop
    insights,                \* topic cultural-insights, and how many of its messages
                             \* the WebSocket manager consumed
    shist,                   \* history of the stream processor's analysis runs
    services                 \* per service: self.running and its background tasks

\* the notification service
notifVars == <<notification_queues, user_preferences, last_notification_time,
               stats, now, loop, nhist>>

\* the state outside the event store, the mediator and the projections
\* the stream processor
streamVars == <<event_windows, pattern_cache, stream_stats, sweep, insights, shist>>

others == <<snapshots, mediator, services, notifVars, stream, fetched, streamVars>>

vars == <<log, profiles, timeline_cache, network_cache, proc, lastOp, rebuild,
          others>>

(* ----------------------- services/event_store.py ----------------------- *)
Max(S) == CHOOSE x \in S : \A y \in S : y <= x

RowsOf(rows, agg) == SelectSeq(rows, LAMBDA e : e.aggregate_id = agg)

VersionsOf(rows, agg) == { rows[i].version : i \in { j \in 1..Len(rows) : rows[j].aggregate_id = agg } }

\* select version ... order by version desc limit 1; "version or 0"
get_current_version(rows, agg) ==
    IF VersionsOf(rows, agg) = {} THEN 0 ELSE Max(VersionsOf(rows, agg))

\* The table's constraints: event_id is the primary key; idx_aggregate_version
\* is a plain (non-unique) index, so (aggregate_id, version) is unconstrained.
IntegrityError(rows, event) ==
    \E i \in 1..Len(rows) : rows[i].event_id = event.event_id

\* uuid4 default of event_id, datetime.utcnow() of occurred_at
NextEventId(rows) == Len(rows) + 1
UtcNow(rows) == Len(rows) + 1


\* variant: only an expected version behind the current one is rejected
VersionConflict_only_stale(current_version, expected_version) ==
    current_version > expected_version

\* "if current_version != expected_version: raise ConcurrencyException"
VersionConflict(current_version, expected_version) ==
    current_version # expected_version

\* variant: the new event reuses the current version
NewVersion_no_increment(current_version) == current_version

\* "new_version = current_version + 1"
NewVersion(current_version) == current_version + 1

\* variant: the insert replaces the newest row
commit_event_replaces_last(rows, event) ==
    [ result |-> "ok", event |-> event,
      rows |-> IF rows = <<>> THEN <<event>>
               ELSE Append(SubSeq(rows, 1, Len(rows) - 1), event) ]

\* The rows a commit of `event` leaves in the table, or the table unchanged
\* with a ConcurrencyException when the insert violates a constraint.
commit_event(rows, event) ==
    IF IntegrityError(rows, event)
    THEN [result |-> "ConcurrencyException", event |-> NoEvent, rows |-> rows]
    ELSE [result |-> "ok", event |-> event, rows |-> Append(rows, event)]

\* EventStore.append_event run without interruption.
append_event(rows, agg, type, data, expected_version, cmd) ==
    LET current_version == get_current_version(rows, agg)
        event == CulturalEvent(NextEventId(rows), agg, type,
                               NewVersion(current_version), data, UtcNow(rows), cmd)
    IN  IF VersionConflict(current_version, expected_version)
        THEN [result |-> "ConcurrencyException", event |-> NoEvent, rows |-> rows]
        ELSE commit_event(rows, event)

(* --------------------- models/cultural_data.py ------------------------- *)
\* A row of cultural_profiles (exists = FALSE: no row for the user).
CulturalProfile(score, patterns, network, blind_spots, last_analysis) ==
    [ exists |-> TRUE, diversity_score |-> score, patterns |-> patterns,
      influence_network |-> network, blind_spots |-> blind_spots,
      last_analysis |-> last_analysis ]

NoProfile ==
    [ exists |-> FALSE, diversity_score |-> 0, patterns |-> <<>>,
      influence_network |-> 0, blind_spots |-> <<>>, last_analysis |-> 0 ]

\* diversity_score is DECIMAL(5, 2): a score in thousandths is stored rounded
\* to hundredths.
Decimal52(score) == ((score + 5) \div 10) * 10

(* -------------------------- services/cqrs.py --------------------------- *)
IngestSocialDataCommand == "IngestSocialDataCommand"
UpdateDiversityScoreCommand == "UpdateDiversityScoreCommand"
GenerateRecommendationCommand == "GenerateRecommendationCommand"

\* CQRSMediator._register_command_handlers: the registered command classes
command_handlers ==
    { IngestSocialDataCommand, UpdateDiversityScoreCommand,
      GenerateRecommendationCommand }

\* CQRSMediator._register_query_handlers: the registered query classes
query_handlers ==
    { "GetCulturalProfileQuery", "GetCulturalEvolutionQuery", "GetRecommendationsQuery" }

\* CQRSMediator.__init__: the two registries
CQRSMediator ==
    [command_handlers |-> command_handlers, query_handlers |-> query_handlers]

\* The command objects callers send; the last class has no handler.
Commands ==
    { Command(IngestSocialDataCommand, u, 0, b) : u \in Aggregates, b \in BOOLEAN }
    \cup { Command(UpdateDiversityScoreCommand, u, s, TRUE) : u \in Aggregates, s \in Scores }
    \cup { Command(GenerateRecommendationCommand, u, 0, TRUE) : u \in Aggregates }
    \cup { Command("Command", u, 0, TRUE) : u \in Aggregates }

\* variant: the read model is not consulted
get_current_diversity_score_unread(profs, user) == 0

\* UpdateDiversityScoreCommandHandler._get_current_diversity_score:
\* "float(score) if score else 0.0"
get_current_diversity_score(profs, user) ==
    IF profs[user].exists THEN profs[user].diversity_score ELSE 0

CommandEventType(ctype) ==
    CASE ctype = IngestSocialDataCommand -> SOCIAL_DATA_INGESTED
      [] ctype = UpdateDiversityScoreCommand -> DIVERSITY_SCORE_UPDATED
      [] OTHER -> RECOMMENDATION_GENERATED

\* The three CommandHandler.handle methods: read the current version, build
\* event_data, append at that version.
handle(rows, profs, command) ==
    LET current_score ==
            IF command.ctype = UpdateDiversityScoreCommand
            THEN get_current_diversity_score(profs, command.user_id)
            ELSE 0
        current_version == get_current_version(rows, command.user_id)
        event_data == EventData(command.val, current_score, command.valid)
    IN  append_event(rows, command.user_id, CommandEventType(command.ctype),
                     event_data, current_version, command)

\* GetCulturalProfileQueryHandler.handle: None (exists = FALSE) or the row
GetCulturalProfileQuery(profs, user) == profs[user]

(* --------------------- services/event_handlers.py ---------------------- *)
\* EventDispatcher._register_handlers
handlers ==
    { "SocialDataIngestedHandler", "CulturalPatternDetectedHandler",
      "DiversityScoreUpdatedHandler", "CulturalMilestoneReachedHandler",
      "RecommendationGeneratedHandler" }

can_handle(h, event_type) ==
    CASE h = "SocialDataIngestedHandler" -> event_type = SOCIAL_DATA_INGESTED
      [] h = "CulturalPatternDetectedHandler" -> event_type = CULTURAL_PATTERN_DETECTED
      [] h = "DiversityScoreUpdatedHandler" -> event_type = DIVERSITY_SCORE_UPDATED
      [] h = "CulturalMilestoneReachedHandler" -> event_type = CULTURAL_MILESTONE_REACHED
      [] h = "RecommendationGeneratedHandler" -> event_type = RECOMMENDATION_GENERATED
      [] OTHER -> FALSE

\* EventHandler.handle: builds the pydantic event model from event_data (which
\* raises when it does not validate); the read-model updates are stubs.
handler_raises(h, event) == ~event.event_data.valid

\* asyncio.gather(*tasks, return_exceptions=...): every task runs; the first
\* exception is re-raised to the awaiter unless return_exceptions is set.
gather(tasks, failed, return_exceptions) ==
    [ ran |-> tasks, failed |-> failed,
      raised |-> (~return_exceptions /\ failed # {}) ]

dispatch_no_return_exceptions(event) ==
    LET hs == { h \in handlers : can_handle(h, event.event_type) }
    IN  gather(hs, { h \in hs : handler_raises(h, event) }, FALSE)

\* EventDispatcher.dispatch
dispatch(event) ==
    LET hs == { h \in handlers : can_handle(h, event.event_type) }
    IN  IF hs = {}
        THEN [ran |-> {}, failed |-> {}, raised |-> FALSE]
        ELSE gather(hs, { h \in hs : handler_raises(h, event) }, TRUE)

\* variant: append and dispatch as one transaction, the append undone when
\* the dispatch raises
send_command_rollback_on_dispatch(registered, rows, profs, command) ==
    IF command.ctype \notin registered
    THEN [ result |-> "ValueError", event |-> NoEvent, rows |-> rows,
           dispatched |-> FALSE, ran |-> {}, failed |-> {} ]
    ELSE LET r == handle(rows, profs, command)
             d == dispatch_no_return_exceptions(r.event)
         IN  [ result |-> IF d.raised THEN "HandlerError" ELSE "ok",
               event |-> IF d.raised THEN NoEvent ELSE r.event,
               rows |-> IF d.raised THEN rows ELSE r.rows,
               dispatched |-> TRUE, ran |-> d.ran, failed |-> d.failed ]

\* CQRSMediator.send_command with the command classes `registered`: result
\* is "ok" (the event is returned) or the exception raised; rows is the
\* table afterwards.
send_command(registered, rows, profs, command) ==
    IF command.ctype \notin registered
    THEN [ result |-> "ValueError", event |-> NoEvent, rows |-> rows,
           dispatched |-> FALSE, ran |-> {}, failed |-> {} ]
    ELSE LET r == handle(rows, profs, command)
         IN  IF r.result # "ok"
             THEN [ result |-> r.result, event |-> NoEvent, rows |-> r.rows,
                    dispatched |-> FALSE, ran |-> {}, failed |-> {} ]
             ELSE LET d == dispatch(r.event)
                  IN  [ result |-> IF d.raised THEN "HandlerError" ELSE "ok",
                        event |-> IF d.raised THEN NoEvent ELSE r.event,
                        rows |-> r.rows, dispatched |-> TRUE,
                        ran |-> d.ran, failed |-> d.failed ]

(* ---------------------- services/projections.py ------------------------ *)
\* EventStore.get_events: the aggregate's rows with
\* from_version < version <= to_version (to_version = -1 for None),
\* ordered by version ascending.
RECURSIVE InsertByVersion(_, _)
InsertByVersion(s, e) ==
    IF s = <<>> THEN <<e>>
    ELSE IF s[Len(s)].version <= e.version THEN Append(s, e)
    ELSE Append(InsertByVersion(SubSeq(s, 1, Len(s) - 1), e), s[Len(s)])

RECURSIVE OrderByVersion(_)
OrderByVersion(s) ==
    IF s = <<>> THEN <<>>
    ELSE InsertByVersion(OrderByVersion(SubSeq(s, 1, Len(s) - 1)), s[Len(s)])

\* variant: from_version is inclusive
get_events_from_inclusive(rows, agg, from_version, to_version) ==
    OrderByVersion(SelectSeq(rows, LAMBDA e :
        /\ e.aggregate_id = agg
        /\ e.version >= from_version
        /\ (to_version = -1 \/ e.version <= to_version)))

\* EventStore.get_events; to_version = -1 is None
get_events(rows, agg, from_version, to_version) ==
    OrderByVersion(SelectSeq(rows, LAMBDA e :
        /\ e.aggregate_id = agg
        /\ e.version > from_version
        /\ (to_version = -1 \/ e.version <= to_version)))

\* list.sort(key=lambda x: x["timestamp"]): stable
RECURSIVE InsertByTimestamp(_, _)
InsertByTimestamp(s, x) ==
    IF s = <<>> THEN <<x>>
    ELSE IF s[Len(s)].timestamp <= x.timestamp THEN Append(s, x)
    ELSE Append(InsertByTimestamp(SubSeq(s, 1, Len(s) - 1), x), s[Len(s)])

RECURSIVE SortByTimestamp(_)
SortByTimestamp(s) ==
    IF s = <<>> THEN <<>>
    ELSE InsertByTimestamp(SortByTimestamp(SubSeq(s, 1, Len(s) - 1)), s[Len(s)])

\* CulturalProfileProjection._ensure_profile_exists
ensure_profile_exists(profs, user) ==
    IF profs[user].exists THEN profs
    ELSE [profs EXCEPT ![user] = CulturalProfile(0, <<>>, 0, <<>>, 0)]

\* update(CulturalProfile).where(user_id == ...): no row, no effect
UpdateProfile(profs, user, row) ==
    IF profs[user].exists THEN [profs EXCEPT ![user] = row] ELSE profs

\* CulturalProfileProjection.project_event and its _handle_* methods
profile_project_event(profs, event) ==
    LET user == event.aggregate_id
        data == event.event_data
    IN  CASE event.event_type = SOCIAL_DATA_INGESTED ->
               LET ps == ensure_profile_exists(profs, user)
               IN  UpdateProfile(ps, user,
                       [ps[user] EXCEPT !.last_analysis = event.occurred_at])
          [] event.event_type = DIVERSITY_SCORE_UPDATED ->
               UpdateProfile(profs, user,
                   [profs[user] EXCEPT !.diversity_score = Decimal52(data.val)])
          [] event.event_type = CULTURAL_PATTERN_DETECTED ->
               UpdateProfile(profs, user,
                   [profs[user] EXCEPT !.patterns =
                       Append(@, [timestamp |-> event.occurred_at, val |-> data.val])])
          [] event.event_type = INFLUENCE_NETWORK_UPDATED ->
               UpdateProfile(profs, user,
                   [profs[user] EXCEPT !.influence_network = data.val])
          [] event.event_type = BLIND_SPOT_IDENTIFIED ->
               UpdateProfile(profs, user,
                   [profs[user] EXCEPT !.blind_spots =
                       Append(@, [timestamp |-> event.occurred_at, val |-> data.val])])
          [] OTHER -> profs

\* variant: the rebuild keeps the existing row
clear_projection_keeps_row(profs, user) == profs

\* CulturalProfileProjection._clear_projection
clear_projection(profs, user) == [profs EXCEPT ![user] = NoProfile]

\* timeline_cache: user -> absent, or the list of entries
NoTimeline == [present |-> FALSE, entries |-> <<>>]
EmptyTimeline == [present |-> TRUE, entries |-> <<>>]

TimelineEntry(kind, event) ==
    [ type |-> kind, timestamp |-> event.occurred_at,
      val |-> event.event_data.val, old |-> event.event_data.old ]

\* _handle_milestone_reached / _handle_pattern_detected / _handle_diversity_change
timeline_append(cache, event, kind) ==
    LET user == event.aggregate_id
        cur == IF cache[user].present THEN cache[user] ELSE EmptyTimeline
    IN  [cache EXCEPT ![user] =
            [cur EXCEPT !.entries = SortByTimestamp(Append(@, TimelineEntry(kind, event)))]]

\* CulturalTimelineProjection.project_event
timeline_project_event(cache, event) ==
    CASE event.event_type = CULTURAL_MILESTONE_REACHED -> timeline_append(cache, event, "milestone")
      [] event.event_type = CULTURAL_PATTERN_DETECTED -> timeline_append(cache, event, "pattern")
      [] event.event_type = DIVERSITY_SCORE_UPDATED -> timeline_append(cache, event, "diversity_change")
      [] OTHER -> cache

\* network_cache: user -> absent, or {"nodes", "edges", "last_updated"}
NoNetwork == [present |-> FALSE, nodes |-> <<>>, edges |-> 0, last_updated |-> 0]
EmptyNetwork == [present |-> TRUE, nodes |-> <<>>, edges |-> 0, last_updated |-> 0]

\* the node list an influence_network_updated payload carries
PayloadNodes(data) == << [id |-> 0, type |-> "node", label |-> data.val, timestamp |-> 0] >>

\* InfluenceNetworkProjection.project_event, _handle_network_updated,
\* _handle_pattern_influence
network_project_event(cache, event) ==
    LET user == event.aggregate_id
        cur == IF cache[user].present THEN cache[user] ELSE EmptyNetwork
    IN  CASE event.event_type = INFLUENCE_NETWORK_UPDATED ->
               [cache EXCEPT ![user] =
                   [ present |-> TRUE, nodes |-> PayloadNodes(event.event_data),
                     edges |-> event.event_data.val,
                     last_updated |-> event.occurred_at ]]
          [] event.event_type = CULTURAL_PATTERN_DETECTED ->
               [cache EXCEPT ![user] =
                   [ cur EXCEPT
                       !.nodes = Append(@, [ id |-> event.event_id, type |-> "pattern",
                                             label |-> event.event_data.val,
                                             timestamp |-> event.occurred_at ]),
                       !.last_updated = event.occurred_at ]]
          [] OTHER -> cache

\* ProjectionManager.__init__: the projections, in the order they are applied
Projections ==
    << "CulturalProfileProjection", "CulturalTimelineProjection",
       "InfluenceNetworkProjection" >>

ProjectionNames == { Projections[i] : i \in 1..Len(Projections) }

\* The read models as one value
ReadModels(profs, tcache, ncache) ==
    [profiles |-> profs, timeline_cache |-> tcache, network_cache |-> ncache]

\* <projection>.project_event(event)
projection_project_event(p, st, event) ==
    CASE p = "CulturalProfileProjection" ->
           [st EXCEPT !.profiles = profile_project_event(@, event)]
      [] p = "CulturalTimelineProjection" ->
           [st EXCEPT !.timeline_cache = timeline_project_event(@, event)]
      [] OTHER ->
           [st EXCEPT !.network_cache = network_project_event(@, event)]

\* "for event in events: await self.project_event(event)"
RECURSIVE replay(_, _, _)
replay(p, st, events) ==
    IF events = <<>> THEN st
    ELSE replay(p, projection_project_event(p, st, Head(events)), Tail(events))

\* the event types rebuild_projection replays into the timeline / the network
timeline_events ==
    { CULTURAL_MILESTONE_REACHED, CULTURAL_PATTERN_DETECTED, DIVERSITY_SCORE_UPDATED }

network_events == { INFLUENCE_NETWORK_UPDATED, CULTURAL_PATTERN_DETECTED }

\* <projection>.rebuild_projection(aggregate_id)
rebuild_projection(p, st, rows, agg) ==
    LET events == get_events(rows, agg, 0, -1)
    IN  CASE p = "CulturalProfileProjection" ->
               replay(p, [st EXCEPT !.profiles = clear_projection(@, agg)], events)
          [] p = "CulturalTimelineProjection" ->
               replay(p, [st EXCEPT !.timeline_cache[agg] = EmptyTimeline],
                      SelectSeq(events, LAMBDA e : e.event_type \in timeline_events))
          [] OTHER ->
               replay(p, [st EXCEPT !.network_cache[agg] = EmptyNetwork],
                      SelectSeq(events, LAMBDA e : e.event_type \in network_events))

\* The loop of ProjectionManager.project_event from projection i on.  A
\* projection in `failing` raises from its project_event and leaves its read
\* model as it was; with isolate (the try/except around each call) the loop
\* goes on, without it the exception leaves the loop.
RECURSIVE project_loop(_, _, _, _, _)
project_loop(st, event, failing, i, isolate) ==
    IF i > Len(Projections)
    THEN [st |-> st, ran |-> {}, failed |-> {}, raised |-> FALSE]
    ELSE LET p == Projections[i]
         IN  IF p \in failing
             THEN IF isolate
                  THEN LET r == project_loop(st, event, failing, i + 1, isolate)
                       IN  [r EXCEPT !.ran = @ \cup {p}, !.failed = @ \cup {p}]
                  ELSE [st |-> st, ran |-> {p}, failed |-> {p}, raised |-> TRUE]
             ELSE LET r == project_loop(projection_project_event(p, st, event),
                                        event, failing, i + 1, isolate)
                  IN  [r EXCEPT !.ran = @ \cup {p}]

manager_project_event_no_except(st, event, failing) ==
    project_loop(st, event, failing, 1, FALSE)

\* ProjectionManager.project_event
manager_project_event(st, event, failing) ==
    project_loop(st, event, failing, 1, TRUE)

(* ------------------ services/notification_service.py ------------------ *)
\* NotificationPriority, in the enum's order
LOW == "low"
MEDIUM == "medium"
HIGH == "high"
URGENT == "urgent"

NotificationPriority == <<LOW, MEDIUM, HIGH, URGENT>>

Priorities == {LOW, MEDIUM, HIGH, URGENT}

NotificationType ==
    { "cultural_insight", "trend_alert", "diversity_milestone", "recommendation",
      "pattern_detected", "social_update", "system_alert" }

\* expires_at = None
NoExpiry == -1

\* CulturalNotification.max_delivery_attempts
max_delivery_attempts == 3

\* "queue[:10]": the notifications taken from one queue per cycle
BatchSize == 10

\* self.rate_limits, in units of 30 seconds
rate_limits(priority) ==
    CASE priority = LOW -> 60
      [] priority = MEDIUM -> 30
      [] priority = HIGH -> 10
      [] OTHER -> 1

CulturalNotification(id, user, type, priority, created_at, expires_at) ==
    [ notification_id |-> id, user_id |-> user, notification_type |-> type,
      priority |-> priority, created_at |-> created_at, expires_at |-> expires_at,
      read |-> FALSE, delivered |-> FALSE, delivery_attempts |-> 0 ]

\* a dict without keys
EmptyDict == [k \in {} |-> 0]

\* d[k] = v
DictSet(d, k, v) == (k :> v) @@ d

EmptyQueues == [priority \in Priorities |-> <<>>]

EmptyStats ==
    [ notifications_created |-> 0, notifications_delivered |-> 0,
      notifications_failed |-> 0, delivery_attempts |-> 0, last_delivery |-> -1 ]

\* variant: the cool-down is never consulted
check_rate_limit_always(times, user, priority, t) == TRUE

\* CulturalNotificationService._check_rate_limit
check_rate_limit(times, user, priority, t) ==
    IF user \notin DOMAIN times THEN TRUE
    ELSE IF priority \notin DOMAIN times[user] THEN TRUE
    ELSE t - times[user][priority] >= rate_limits(priority)

\* variant: one time per subscriber, whatever the priority
update_rate_limit_every_priority(times, user, priority, t) ==
    DictSet(times, user, [p \in Priorities |-> t])

\* CulturalNotificationService._update_rate_limit
update_rate_limit(times, user, priority, t) ==
    DictSet(times, user,
            DictSet(IF user \in DOMAIN times THEN times[user] ELSE EmptyDict,
                    priority, t))

\* variant: a missing preference reads as disabled
should_send_notification_default_off(prefs, user, type) ==
    /\ user \in DOMAIN prefs
    /\ type \in DOMAIN prefs[user]
    /\ prefs[user][type]

\* CulturalNotificationService._should_send_notification:
\* "preferences.get(notification_type.value, True)"
should_send_notification(prefs, user, type) ==
    LET preferences == IF user \in DOMAIN prefs THEN prefs[user] ELSE EmptyDict
    IN  IF type \in DOMAIN preferences THEN preferences[type] ELSE TRUE

\* variant: a suppressed create restarts the cool-down
suppressed_restarts(queues, times, st, user, priority, t) ==
    [ id |-> 0, queues |-> queues,
      times |-> update_rate_limit(times, user, priority, t), stats |-> st ]

\* "return None" before anything is built: what a suppressed create leaves
suppressed(queues, times, st, user, priority, t) ==
    [id |-> 0, queues |-> queues, times |-> times, stats |-> st]

\* CulturalNotificationService.create_notification at time t; id = 0 is the
\* None it returns when the notification is suppressed.
create_notification(queues, times, prefs, st, user, type, priority, expires_in, t) ==
    LET id == st.notifications_created + 1
        notification ==
            CulturalNotification(id, user, type, priority, t,
                                 IF expires_in = NoExpiry THEN NoExpiry
                                 ELSE t + expires_in)
    IN  IF ~check_rate_limit(times, user, priority, t)
        THEN suppressed(queues, times, st, user, priority, t)
        ELSE IF ~should_send_notification(prefs, user, type)
        THEN suppressed(queues, times, st, user, priority, t)
        ELSE [ id |-> id,
               queues |-> [queues EXCEPT ![priority] = Append(@, notification)],
               times |-> update_rate_limit(times, user, priority, t),
               stats |-> [st EXCEPT !.notifications_created = @ + 1] ]

\* variant: an expired notification is still delivered
is_expired_never(n, t) == FALSE

\* "notification.expires_at and notification.expires_at < datetime.utcnow()"
is_expired(n, t) == n.expires_at # NoExpiry /\ n.expires_at < t

\* variant: a delivered notification is queued again
requeue_after_success_again(queues, n) ==
    [queues EXCEPT ![n.priority] = Append(@, n)]

\* the queues after a successful delivery of n
requeue_after_success(queues, n) == queues

\* variant: a notification may always be tried once more
attempts_left_always(n) == TRUE

\* "notification.delivery_attempts < notification.max_delivery_attempts"
attempts_left(n) == n.delivery_attempts < max_delivery_attempts

\* CulturalNotificationService._deliver_notification at time t; outcome is
\* what kafka_service.publish_notification does: "success" (returns True),
\* "fail" (returns False) or "raise".  published: the broker was called;
\* ended: how n left the service ("none" when it was queued again).
deliver_notification(queues, st, n, outcome, t) ==
    IF is_expired(n, t)
    THEN [queues |-> queues, stats |-> st, published |-> FALSE, ended |-> "expired"]
    ELSE IF ~attempts_left(n)
    THEN [ queues |-> queues,
           stats |-> [st EXCEPT !.notifications_failed = @ + 1],
           published |-> FALSE, ended |-> "exhausted" ]
    ELSE LET m == [n EXCEPT !.delivery_attempts = @ + 1]
             st1 == [st EXCEPT !.delivery_attempts = @ + 1]
             again == [queues EXCEPT ![m.priority] = Append(@, m)]
         IN  CASE outcome = "success" ->
                    [ queues |-> requeue_after_success(queues, [m EXCEPT !.delivered = TRUE]),
                      stats |-> [st1 EXCEPT !.notifications_delivered = @ + 1,
                                            !.last_delivery = t],
                      published |-> TRUE, ended |-> "delivered" ]
               [] outcome = "fail" ->
                    IF attempts_left(m)
                    THEN [ queues |-> again, stats |-> st1,
                           published |-> TRUE, ended |-> "none" ]
                    ELSE [ queues |-> queues,
                           stats |-> [st1 EXCEPT !.notifications_failed = @ + 1],
                           published |-> TRUE, ended |-> "exhausted" ]
               [] OTHER ->
                    IF attempts_left(m)
                    THEN [ queues |-> again, stats |-> st1,
                           published |-> TRUE, ended |-> "none" ]
                    ELSE [ queues |-> queues, stats |-> st1,
                           published |-> TRUE, ended |-> "abandoned" ]

\* variant: every notification that has an expiry time is removed
cleanup_expired_with_any_expiry(queues, t) ==
    [ priority \in Priorities |->
        SelectSeq(queues[priority], LAMBDA n : n.expires_at = NoExpiry) ]

\* the filter of _cleanup_expired_notifications at time t
cleanup_expired(queues, t) ==
    [ priority \in Priorities |->
        SelectSeq(queues[priority],
                  LAMBDA n : n.expires_at = NoExpiry \/ n.expires_at > t) ]

Min(a, b) == IF a <= b THEN a ELSE b

\* queue[:k] and queue[k:]
Take(queue, k) == SubSeq(queue, 1, Min(k, Len(queue)))
Drop(queue, k) == SubSeq(queue, Min(k, Len(queue)) + 1, Len(queue))

\* "for priority in [URGENT, HIGH, MEDIUM, LOW]"
DeliveryOrder == <<URGENT, HIGH, MEDIUM, LOW>>

\* variant: the low priorities are drained first
DeliveryOrderAt_reversed(idx) == DeliveryOrder[Len(DeliveryOrder) + 1 - idx]

\* the priority drained at position idx of a cycle
DeliveryOrderAt(idx) == DeliveryOrder[idx]

\* notifications.sort(key=created_at, reverse=True): stable
RECURSIVE InsertByCreatedDesc(_, _)
InsertByCreatedDesc(s, x) ==
    IF s = <<>> THEN <<x>>
    ELSE IF s[Len(s)].created_at >= x.created_at THEN Append(s, x)
    ELSE Append(InsertByCreatedDesc(SubSeq(s, 1, Len(s) - 1), x), s[Len(s)])

RECURSIVE SortByCreatedDesc(_)
SortByCreatedDesc(s) ==
    IF s = <<>> THEN <<>>
    ELSE InsertByCreatedDesc(SortByCreatedDesc(SubSeq(s, 1, Len(s) - 1)), s[Len(s)])

\* notifications[:limit]: a negative limit leaves out that many at the end
SliceTo(notifications, limit) ==
    IF limit >= 0 THEN Take(notifications, limit)
    ELSE Take(notifications, Len(notifications) + limit)

\* CulturalNotificationService.get_user_notifications
get_user_notifications(queues, user, limit, unread_only) ==
    LET mine(priority) ==
            SelectSeq(queues[priority],
                      LAMBDA n : n.user_id = user /\ (~unread_only \/ ~n.read))
        all == mine(NotificationPriority[1]) \o mine(NotificationPriority[2])
               \o mine(NotificationPriority[3]) \o mine(NotificationPriority[4])
    IN  SliceTo(SortByCreatedDesc(all), limit)

\* the queue that follows `queue` once the first notification of `user`
\* with this id, if any, has "notification.read = True"
MarkIn(queue, user, id) ==
    LET hits == { i \in 1..Len(queue) :
                    queue[i].user_id = user /\ queue[i].notification_id = id }
    IN  IF hits = {} THEN queue
        ELSE [queue EXCEPT ![CHOOSE i \in hits : \A j \in hits : i <= j].read = TRUE]

\* variant: the subscriber is not compared
mark_notification_read_of_anyone(queues, user, id) ==
    LET held == { priority \in Priorities :
                    \E i \in 1..Len(queues[priority]) :
                        queues[priority][i].notification_id = id }
    IN  [ queues |-> [ priority \in Priorities |->
                         [ i \in 1..Len(queues[priority]) |->
                             IF queues[priority][i].notification_id = id
                             THEN [queues[priority][i] EXCEPT !.read = TRUE]
                             ELSE queues[priority][i] ] ],
          result |-> held # {} ]

\* CulturalNotificationService.mark_notification_read: the queues are
\* searched in the order of NotificationPriority and the search ends with
\* the first notification found
mark_notification_read(queues, user, id) ==
    LET holds(k) == \E i \in 1..Len(queues[NotificationPriority[k]]) :
                        LET n == queues[NotificationPriority[k]][i]
                        IN  n.user_id = user /\ n.notification_id = id
        found == { k \in 1..Len(NotificationPriority) : holds(k) }
    IN  IF found = {} THEN [queues |-> queues, result |-> FALSE]
        ELSE LET first == CHOOSE k \in found : \A j \in found : k <= j
                 priority == NotificationPriority[first]
             IN  [ queues |-> [queues EXCEPT ![priority] = MarkIn(@, user, id)],
                   result |-> TRUE ]

(* ---------------------- services/cqrs.py: queries ---------------------- *)
\* a query object (cqrs.py: Query subclasses): its class, user_id and, for
\* GetRecommendationsQuery, limit
Query(qtype, user, limit) == [qtype |-> qtype, user_id |-> user, limit |-> limit]

\* order_by(desc(CulturalEvent.occurred_at))
RECURSIVE InsertByOccurredDesc(_, _)
InsertByOccurredDesc(s, e) ==
    IF s = <<>> THEN <<e>>
    ELSE IF s[Len(s)].occurred_at >= e.occurred_at THEN Append(s, e)
    ELSE Append(InsertByOccurredDesc(SubSeq(s, 1, Len(s) - 1), e), s[Len(s)])

RECURSIVE OrderByOccurredDesc(_)
OrderByOccurredDesc(s) ==
    IF s = <<>> THEN <<>>
    ELSE InsertByOccurredDesc(OrderByOccurredDesc(SubSeq(s, 1, Len(s) - 1)), s[Len(s)])

\* EventStore.get_events_by_type(event_type, limit=limit), no date range:
\* the newest `limit` rows of the type, newest first
get_events_by_type(rows, event_type, limit) ==
    Take(OrderByOccurredDesc(SelectSeq(rows, LAMBDA e : e.event_type = event_type)),
         limit)

\* get_events_by_type: "limit: int = 1000"
DefaultTypeLimit == 1000

\* what the query handlers return for an event: its id and occurred_at
Formatted(events) ==
    [ k \in 1..Len(events) |->
        [id |-> events[k].event_id, created_at |-> events[k].occurred_at] ]

\* GetCulturalEvolutionQueryHandler.handle and
\* GetRecommendationsQueryHandler.handle: the events of the type are fetched
\* up to the limit, then those of the user are kept
handle_events_query(rows, event_type, user, limit) ==
    Formatted(SelectSeq(get_events_by_type(rows, event_type, limit),
                        LAMBDA e : e.aggregate_id = user))

\* QueryHandler.handle of the handler registered for the query's class
handle_query(rows, profs, query) ==
    CASE query.qtype = "GetCulturalEvolutionQuery" ->
            handle_events_query(rows, CULTURAL_MILESTONE_REACHED, query.user_id,
                                DefaultTypeLimit)
      [] query.qtype = "GetRecommendationsQuery" ->
            handle_events_query(rows, RECOMMENDATION_GENERATED, query.user_id,
                                query.limit)
      [] OTHER ->
            IF GetCulturalProfileQuery(profs, query.user_id).exists
            THEN <<GetCulturalProfileQuery(profs, query.user_id)>>
            ELSE <<>>

\* variant: a query of an unregistered class is handled as a profile query
send_query_falls_back(registered, rows, profs, query) ==
    [result |-> "ok", value |-> handle_query(rows, profs, query)]

\* CQRSMediator.send_query with the query classes `registered`: result is
\* "ok" with the value returned, or the exception raised
send_query(registered, rows, profs, query) ==
    IF query.qtype \notin registered
    THEN [result |-> "ValueError", value |-> <<>>]
    ELSE [result |-> "ok", value |-> handle_query(rows, profs, query)]

(* -------------------- services/stream_processor.py --------------------- *)
\* kafka_service.CulturalEvent, as the detectors read it: platform,
\* timestamp (seconds) and the list data["cultural_categories"]
StreamEvent(platform, timestamp, categories) ==
    [platform |-> platform, timestamp |-> timestamp, cultural_categories |-> categories]

\* floats are carried in thousandths, rounded down
Scale == 1000

\* self.thresholds["cross_platform_correlation"] = 0.7
cross_platform_correlation_threshold == 700

\* "event.timestamp.timestamp() // 300": the 5-minute window of an event
WindowKey(event) == event.timestamp \div 300

\* variant: the whole window is analysed
LastEvents_all(events, k) == events

\* events[-k:]
LastEvents(events, k) ==
    IF Len(events) <= k THEN events ELSE SubSeq(events, Len(events) - k + 1, Len(events))

\* set(event.platform for event in events)
PlatformsOf(events) == { events[i].platform : i \in 1..Len(events) }

\* CulturalPattern of type cross_platform_correlation
CulturalPattern(window_key, confidence, platforms, event_count) ==
    [ pattern_id |-> window_key, pattern_type |-> "cross_platform_correlation",
      confidence |-> confidence, platforms |-> platforms, event_count |-> event_count ]

\* CulturalStreamProcessor._detect_cross_platform_correlation: the patterns
\* in the order in which time_windows received its keys
detect_cross_platform_correlation(events) ==
    LET recent == LastEvents(events, 20)
        keyed == [i \in 1..Len(recent) |-> [i |-> i, key |-> WindowKey(recent[i])]]
        first == SelectSeq(keyed, LAMBDA x : \A j \in 1..(x.i - 1) : keyed[j].key # x.key)
        window_events(key) == SelectSeq(recent, LAMBDA e : WindowKey(e) = key)
        correlation_strength(key) ==
            Min((Cardinality(PlatformsOf(window_events(key))) * Scale) \div 3, Scale)
        emitted == SelectSeq(first, LAMBDA x :
                       /\ Cardinality(PlatformsOf(window_events(x.key))) >= 2
                       /\ correlation_strength(x.key) >= cross_platform_correlation_threshold)
    IN  [ k \in 1..Len(emitted) |->
            CulturalPattern(emitted[k].key, correlation_strength(emitted[k].key),
                            PlatformsOf(window_events(emitted[k].key)),
                            Len(window_events(emitted[k].key))) ]

\* set(categories)
CategorySet(categories) == { categories[i] : i \in 1..Len(categories) }

\* the denominator in which diversity scores are carried: 60 is 1.0
ScoreUnit == 60

\* CulturalStreamProcessor._calculate_diversity_score:
\* "min((len(categories) / 10.0 + len(platforms) / 3.0) / 2.0, 1.0)"
calculate_diversity_score(events) ==
    IF events = <<>> THEN 0
    ELSE LET categories ==
                 UNION { CategorySet(events[i].cultural_categories) : i \in 1..Len(events) }
             platforms == PlatformsOf(events)
             category_diversity == Cardinality(categories) * (ScoreUnit \div 10)
             platform_diversity == Cardinality(platforms) * (ScoreUnit \div 3)
         IN  Min((category_diversity + platform_diversity) \div 2, ScoreUnit)

\* no function of the stream processor was called on `events` yet
StreamInput(events) == [events |-> events, ran |-> "none", patterns |-> <<>>, score |-> 0]

\* deque(maxlen=100): the capacity of an event window
window_maxlen == 100

\* thresholds["cultural_shift_significance"] = 0.6 and
\* thresholds["diversity_change"] = 0.5, in units of 1/ScoreUnit;
\* thresholds["trend_emergence"] = 0.8, in thousandths
cultural_shift_significance_threshold == 36
diversity_change_threshold == 30
trend_emergence_threshold == 800

\* kafka_service.CulturalEvent(**event_data), with the fields the processor
\* reads
KafkaCulturalEvent(event_id, user_id, platform, timestamp, categories) ==
    [ event_id |-> event_id, user_id |-> user_id, platform |-> platform,
      timestamp |-> timestamp, cultural_categories |-> categories ]

\* variant: a full window refuses the new event
DequeAppend_keeps_oldest(window, event) ==
    IF Len(window) >= window_maxlen THEN window ELSE Append(window, event)

\* deque.append on a deque(maxlen=100)
DequeAppend(window, event) ==
    IF Len(window) >= window_maxlen
    THEN Append(Tail(window), event)
    ELSE Append(window, event)

\* abs(a - b)
AbsDiff(a, b) == IF a >= b THEN a - b ELSE b - a

\* a CulturalPattern of the three other types; confidence in thousandths
PatternOf(pattern_type, pattern_id, confidence, platforms) ==
    [ pattern_id |-> pattern_id, pattern_type |-> pattern_type,
      confidence |-> confidence, platforms |-> platforms ]

\* CulturalStreamProcessor._detect_cultural_shifts, called at time `at`
detect_cultural_shifts(user_id, events, at) ==
    IF Len(events) < 10 THEN <<>>
    ELSE LET n == Len(events)
             recent_events == LastEvents(events, 5)
             historical_events == SubSeq(events, (IF n > 15 THEN n - 15 ELSE 0) + 1, n - 5)
             recent_diversity == calculate_diversity_score(recent_events)
             historical_diversity == calculate_diversity_score(historical_events)
             shift_magnitude == AbsDiff(recent_diversity, historical_diversity)
         IN  IF shift_magnitude >= cultural_shift_significance_threshold
             THEN << PatternOf("cultural_shift", <<"cultural_shift", user_id, at>>,
                               (Min(shift_magnitude, ScoreUnit) * Scale) \div ScoreUnit,
                               PlatformsOf(recent_events)) >>
             ELSE <<>>

RECURSIVE Flatten(_)
\* the categories of the events, in the order the loops visit them
Flatten(events) ==
    IF events = <<>> THEN <<>>
    ELSE Head(events).cultural_categories \o Flatten(Tail(events))

\* CulturalStreamProcessor._detect_trend_emergence: one pattern per
\* category, in the order in which category_counts received its keys
detect_trend_emergence(user_id, events, at) ==
    LET recent_events == LastEvents(events, 10)
        visited == Flatten(recent_events)
        keyed == [i \in 1..Len(visited) |-> [i |-> i, category |-> visited[i]]]
        first == SelectSeq(keyed, LAMBDA x :
                     \A j \in 1..(x.i - 1) : visited[j] # x.category)
        count(category) == Cardinality({ i \in 1..Len(visited) : visited[i] = category })
        total_events == Len(recent_events)
        emitted == SelectSeq(first, LAMBDA x :
                       count(x.category) * Scale >= trend_emergence_threshold * total_events)
        having(category) ==
            SelectSeq(recent_events,
                      LAMBDA e : category \in CategorySet(e.cultural_categories))
    IN  [ k \in 1..Len(emitted) |->
            PatternOf("trend_emergence",
                      <<"trend_emergence", user_id, emitted[k].category, at>>,
                      (count(emitted[k].category) * Scale) \div total_events,
                      PlatformsOf(having(emitted[k].category))) ]

significant_change_strict(change) == change > diversity_change_threshold

\* "if change >= self.thresholds["diversity_change"]"
significant_change(change) == change >= diversity_change_threshold

\* CulturalStreamProcessor._detect_diversity_changes; scores and their
\* differences are carried exactly, in sixtieths
detect_diversity_changes(user_id, events, at) ==
    IF Len(events) < 8 THEN <<>>
    ELSE LET window_size == 4
             windows == [ k \in 1..(Len(events) \div window_size) |->
                            SubSeq(events, (k - 1) * window_size + 1, k * window_size) ]
             diversity_scores == [ k \in 1..Len(windows) |->
                                     calculate_diversity_score(windows[k]) ]
             change(i) == AbsDiff(diversity_scores[i + 1], diversity_scores[i])
             steps == [ i \in 1..(Len(windows) - 1) |-> i ]
             emitted == SelectSeq(steps, LAMBDA i : significant_change(change(i)))
         IN  [ k \in 1..Len(emitted) |->
                 PatternOf("diversity_change",
                           <<"diversity_change", user_id, emitted[k], at>>,
                           (Min(change(emitted[k]), ScoreUnit) * Scale) \div ScoreUnit,
                           PlatformsOf(windows[emitted[k] + 1])) ]

\* the patterns _analyze_user_patterns collects from the four detectors
detect_patterns(user_id, events, at) ==
    detect_cross_platform_correlation(events)
        \o detect_cultural_shifts(user_id, events, at)
        \o detect_trend_emergence(user_id, events, at)
        \o detect_diversity_changes(user_id, events, at)

\* CulturalStreamProcessor._create_insight_from_pattern
create_insight_from_pattern(user_id, pattern) ==
    [ insight_id |-> <<"insight", pattern.pattern_id>>, user_id |-> user_id,
      insight_type |->
          CASE pattern.pattern_type = "cross_platform_correlation" -> "cross_platform_behavior"
            [] pattern.pattern_type = "cultural_shift" -> "cultural_evolution"
            [] pattern.pattern_type = "trend_emergence" -> "emerging_trend"
            [] pattern.pattern_type = "diversity_change" -> "diversity_shift",
      confidence |-> pattern.confidence ]

\* a dict with default: d[key], or the default factory's value
DictGet(d, key, default) == IF key \in DOMAIN d THEN d[key] ELSE default

(* ------------------------------ state ---------------------------------- *)
Op(op, agg, expected, result, event, before, cmd, dispatched, ran, failed) ==
    [ op |-> op, agg |-> agg, expected |-> expected, result |-> result,
      event |-> event, log_before |-> before, cmd |-> cmd,
      dispatched |-> dispatched, ran |-> ran, failed |-> failed ]

Idle == [ pc |-> "idle", agg |-> "none", etype |-> "none",
          data |-> EventData(0, 0, TRUE), current |-> 0 ]

Current == ReadModels(profiles, timeline_cache, network_cache)

\* No rebuild_projection call is suspended.  seen and during are history
\* fields: the length of the log when the rebuild read it, and the log
\* positions handed to project_event since.
NoRebuild ==
    [ pc |-> "idle", p |-> "none", agg |-> "none", events |-> <<>>,
      seen |-> 0, during |-> {} ]

\* the delivery loop about to drain the queue at position idx of its cycle
LoopAt(pc, idx, batch) == [pc |-> pc, idx |-> idx, batch |-> batch]

\* the call of the notification service that just returned
NLast(op, user, type, priority, id, before) ==
    [ op |-> op, user |-> user, type |-> type, priority |-> priority, id |-> id,
      queues_before |-> before ]

\* History of the notification service: the last call; the creates that
\* returned an id; the broker calls, in order; how each notification left
\* the service; the notifications picked in the current delivery cycle.
NoCall == NLast("none", 0, "none", "none", 0, <<>>)

NoHistory ==
    [ last |-> NoCall,
      accepted |-> {}, published |-> <<>>, ended |-> {},
      cycle |-> <<>> ]

\* CulturalNotificationService.__init__, started
InitService ==
    /\ notification_queues = EmptyQueues
    /\ user_preferences = EmptyDict
    /\ last_notification_time = EmptyDict
    /\ stats = EmptyStats
    /\ now = 0
    /\ loop = LoopAt("take", 1, <<>>)
    /\ nhist = NoHistory

\* A background task of a service, at its "while self.running" loop: ready
\* to test the flag for the first time, inside a cycle, asleep between
\* cycles, or done.  History fields: stop() was called since the task was
\* created; the task began a cycle after that.
Task(name, pc, stopped, after_stop) ==
    [name |-> name, pc |-> pc, stopped |-> stopped, after_stop |-> after_stop]

\* a service object: self.running and the tasks its start() calls created
Service(running, tasks) == [running |-> running, tasks |-> tasks]

\* the two services, constructed and not started
ServiceNames == {"notification_service", "stream_processor"}
NotStarted == [service \in ServiceNames |-> Service(FALSE, <<>>)]

\* the get_events call that returned `events` from the table `rows`
Fetch(op, agg, from_version, to_version, rows, events) ==
    [ op |-> op, agg |-> agg, from_version |-> from_version,
      to_version |-> to_version, rows |-> rows, events |-> events ]

NoFetch == Fetch("none", "none", 0, -1, <<>>, <<>>)

\* self.event_windows, a defaultdict of deques
Windows(keys, deque) == [keys |-> keys, deque |-> deque]

\* self.stats of the stream processor
StreamStats(events_processed, patterns_detected, insights_generated, processing_errors) ==
    [ events_processed |-> events_processed, patterns_detected |-> patterns_detected,
      insights_generated |-> insights_generated, processing_errors |-> processing_errors ]

\* _pattern_analysis_loop: asleep, or inside its for loop with the keys in
\* todo still to visit; count is a history field, the sweeps started
SweepAt(pc, todo, count) == [pc |-> pc, todo |-> todo, count |-> count]

\* the event data of a message that CulturalEvent(**event_data) rejects
Malformed == KafkaCulturalEvent(0, 0, "none", 0, <<>>)

\* History of the stream processor, per subscriber: the times the
\* detectors ran on the window, and the events appended since they last did.
Analysis(runs, since) == [runs |-> runs, since |-> since]

\* History of the stream processor: the call that just returned (the
\* handler of a message or one step of the sweep), the subscriber and the
\* event it was about, whether it ran the detectors, each subscriber's
\* analysis history, and the messages handed to the handler.
SHist(last, user, event, ran, analysis, messages) ==
    [ last |-> last, user |-> user, event |-> event, ran |-> ran,
      analysis |-> analysis, messages |-> messages ]

\* CulturalStreamProcessor.__init__, started
InitProcessor ==
    /\ event_windows = Windows(<<>>, EmptyDict)
    /\ pattern_cache = EmptyDict
    /\ stream_stats = StreamStats(0, 0, 0, 0)
    /\ sweep = SweepAt("sleep", <<>>, 0)
    /\ insights = [topic |-> <<>>, websocket |-> 0]
    /\ shist = SHist("none", 0, Malformed, FALSE, EmptyDict, 0)

\* the state after construction, the inputs of pure functions aside
InitRest ==
    /\ log = <<>>
    /\ profiles = [u \in Aggregates |-> NoProfile]
    /\ timeline_cache = [u \in Aggregates |-> NoTimeline]
    /\ network_cache = [u \in Aggregates |-> NoNetwork]
    /\ proc = [p \in Procs |-> Idle]
    /\ lastOp = Op("init", "none", 0, "ok", NoEvent, <<>>, NoCommand, FALSE, {}, {})
    /\ rebuild = NoRebuild
    /\ snapshots = <<>>
    /\ mediator = CQRSMediator
    /\ services = NotStarted
    /\ InitService
    /\ fetched = NoFetch

InitCore == InitRest /\ InitProcessor

Init == InitCore /\ stream = StreamInput(<<>>)

\* the payloads direct append_event calls carry
StoreInputs ==
    { <<SOCIAL_DATA_INGESTED, EventData(0, 0, TRUE)>>,
      <<CULTURAL_PATTERN_DETECTED, EventData(1, 0, TRUE)>> }

ProjectionInputs ==
    { <<SOCIAL_DATA_INGESTED, EventData(0, 0, TRUE)>>,
      <<CULTURAL_PATTERN_DETECTED, EventData(1, 0, TRUE)>>,
      <<CULTURAL_MILESTONE_REACHED, EventData(1, 0, TRUE)>>,
      <<INFLUENCE_NETWORK_UPDATED, EventData(1, 0, TRUE)>>,
      <<BLIND_SPOT_IDENTIFIED, EventData(1, 0, TRUE)>> }
    \cup { <<DIVERSITY_SCORE_UPDATED, EventData(s, 0, TRUE)>> : s \in Scores }

ManagerInputs ==
    { <<SOCIAL_DATA_INGESTED, EventData(0, 0, TRUE)>>,
      <<CULTURAL_PATTERN_DETECTED, EventData(1, 0, TRUE)>>,
      <<DIVERSITY_SCORE_UPDATED, EventData(755, 0, TRUE)>> }

(* ---------------------- calls run one at a time ------------------------ *)
\* event_store.append_event(agg, type, data, expected_version)
AppendEvent(agg, type, data, expected_version) ==
    /\ LET r == append_event(log, agg, type, data, expected_version, NoCommand)
       IN  /\ log' = r.rows
           /\ lastOp' = Op("append_event", agg, expected_version, r.result,
                           r.event, log, NoCommand, FALSE, {}, {})
    /\ UNCHANGED <<profiles, timeline_cache, network_cache, proc, rebuild, others>>

\* mediator.send_command(command)
SendCommand(command) ==
    /\ LET r == send_command(mediator.command_handlers, log, profiles, command)
       IN  /\ log' = r.rows
           /\ lastOp' = Op("send_command", command.user_id, -1, r.result,
                           r.event, log, command, r.dispatched, r.ran, r.failed)
    /\ UNCHANGED <<profiles, timeline_cache, network_cache, proc, rebuild, others>>

\* ProjectionManager.project_event(event) for a stored event (a dispatch, a
\* replay or a redelivery); `failing` are the projections that raise.
ProjectEvent(i, failing) ==
    /\ i \in 1..Len(log)
    /\ log[i].aggregate_id \in Projected
    /\ LET r == manager_project_event(Current, log[i], failing)
       IN  /\ \A u \in Aggregates :
                /\ Len(r.st.profiles[u].patterns) <= MaxEntries
                /\ Len(r.st.profiles[u].blind_spots) <= MaxEntries
                /\ Len(r.st.timeline_cache[u].entries) <= MaxEntries
                /\ Len(r.st.network_cache[u].nodes) <= MaxEntries
           /\ profiles' = r.st.profiles
           /\ timeline_cache' = r.st.timeline_cache
           /\ network_cache' = r.st.network_cache
           /\ lastOp' = Op("project_event", log[i].aggregate_id, -1,
                           IF r.raised THEN "ProjectionError" ELSE "ok",
                           log[i], log, NoCommand, FALSE, r.ran, r.failed)
    /\ rebuild' = IF rebuild.pc = "idle" THEN rebuild
                  ELSE [rebuild EXCEPT !.during = @ \cup {i}]
    /\ UNCHANGED <<log, proc, others>>

\* <projection p>.rebuild_projection(agg)
RebuildProjection(p, agg) ==
    /\ LET st == rebuild_projection(p, Current, log, agg)
       IN  /\ profiles' = st.profiles
           /\ timeline_cache' = st.timeline_cache
           /\ network_cache' = st.network_cache
    /\ lastOp' = Op("rebuild_projection", agg, -1, "ok", NoEvent, log,
                    NoCommand, FALSE, {p}, {})
    /\ UNCHANGED <<log, proc, rebuild, others>>

Next ==
    \/ \E agg \in Aggregates, in \in StoreInputs, v \in Versions :
          Len(log) < MaxEvents /\ AppendEvent(agg, in[1], in[2], v)
    \/ \E command \in Commands :
          Len(log) < MaxEvents /\ SendCommand(command)

Spec == Init /\ [][Next]_vars

\* an append that succeeds, of a payload the projections fold
AppendProjected(inputs) ==
    \E agg \in Aggregates, in \in inputs :
        /\ Len(log) < MaxProjEvents
        /\ agg \notin Projected => in[1] = CULTURAL_PATTERN_DETECTED
        /\ AppendEvent(agg, in[1], in[2], get_current_version(log, agg))

\* Projections that fold and rebuild without failure.
NextProj ==
    \/ AppendProjected(ProjectionInputs)
    \/ \E i \in 1..MaxProjEvents : ProjectEvent(i, {})
    \/ \E p \in ProjectionNames, agg \in Projected : RebuildProjection(p, agg)

SpecProj == Init /\ [][NextProj]_vars

\* The projection manager handed the newest event (redeliveries included),
\* with projections that may raise.
NextMgr ==
    \/ AppendProjected(ManagerInputs)
    \/ \E failing \in SUBSET ProjectionNames : ProjectEvent(Len(log), failing)

SpecMgr == Init /\ [][NextMgr]_vars

\* the commands one user sends while the newest event is projected
ScoreCommands ==
    { c \in Commands : c.user_id \in Projected /\ c.valid
                          /\ c.ctype \in {IngestSocialDataCommand, UpdateDiversityScoreCommand} }

NextCmd ==
    \/ \E command \in ScoreCommands :
          Len(log) < MaxEvents /\ SendCommand(command)
    \/ ProjectEvent(Len(log), {})

SpecCmd == Init /\ [][NextCmd]_vars

\* the send_query call that returned `value` from the table `rows`
Answer(query, result, value, rows) ==
    [op |-> "send_query", query |-> query, result |-> result, value |-> value,
     rows |-> rows]

\* mediator.send_query(query)
SendQueryTo(query) ==
    /\ LET r == send_query(mediator.query_handlers, log, profiles, query)
       IN  /\ lastOp' = Op("send_query", query.user_id, -1, r.result, NoEvent, log,
                           NoCommand, FALSE, {}, {})
           /\ fetched' = Answer(query, r.result, r.value, log)
    /\ UNCHANGED <<log, profiles, timeline_cache, network_cache, proc, rebuild,
                   snapshots, mediator, services, notifVars, stream, streamVars>>

\* the limits of recommendation queries; "limit: int = 10" is the default
RecommendationLimits == {0, 1, 2, 10}

\* the query objects callers send; the last class has no handler
Queries ==
    { Query(qtype, u, 0) :
        qtype \in {"GetCulturalProfileQuery", "GetCulturalEvolutionQuery", "Query"},
        u \in Aggregates }
    \cup { Query("GetRecommendationsQuery", u, limit) :
             u \in Aggregates, limit \in RecommendationLimits }

\* the command objects sent next to the queries: recommendations for both
\* users, ingested data for one, and commands of the class without a handler
QueryCommands ==
    { c \in Commands :
        \/ c.ctype = GenerateRecommendationCommand
        \/ c.ctype = "Command"
        \/ c.ctype = IngestSocialDataCommand /\ c.user_id \in Projected /\ c.valid }

\* Commands and queries of every class are sent, registered or not, while
\* the newest event is projected.
NextQuery ==
    \/ \E command \in QueryCommands :
          Len(log) < MaxEvents /\ SendCommand(command)
    \/ \E query \in Queries : SendQueryTo(query)
    \/ ProjectEvent(Len(log), {})

SpecQuery == Init /\ [][NextQuery]_vars

(* --------------- append_event calls of concurrent callers -------------- *)
\* append_event up to its version check (event_store.py:68-73)
BeginAppend(p, agg, type, data, expected_version) ==
    /\ proc[p].pc = "idle"
    /\ Len(log) < MaxEvents
    /\ LET current_version == get_current_version(log, agg)
       IN  IF VersionConflict(current_version, expected_version)
           THEN /\ lastOp' = Op("append_event", agg, expected_version,
                                "ConcurrencyException", NoEvent, log, NoCommand,
                                FALSE, {}, {})
                /\ UNCHANGED proc
           ELSE /\ proc' = [proc EXCEPT ![p] =
                               [ pc |-> "commit", agg |-> agg, etype |-> type,
                                 data |-> data, current |-> current_version ]]
                /\ UNCHANGED lastOp
    /\ UNCHANGED <<log, profiles, timeline_cache, network_cache, rebuild, others>>

\* the rest of append_event: build the event, add, commit (event_store.py:76-98)
CommitAppend(p) ==
    /\ proc[p].pc = "commit"
    /\ LET event == CulturalEvent(NextEventId(log), proc[p].agg, proc[p].etype,
                                  NewVersion(proc[p].current), proc[p].data,
                                  UtcNow(log), NoCommand)
           r == commit_event(log, event)
       IN  /\ log' = r.rows
           /\ lastOp' = Op("append_event", proc[p].agg, proc[p].current, r.result,
                           r.event, log, NoCommand, FALSE, {}, {})
    /\ proc' = [proc EXCEPT ![p] = Idle]
    /\ UNCHANGED <<profiles, timeline_cache, network_cache, rebuild, others>>

NextConc ==
    \/ \E p \in Procs, agg \in Aggregates, in \in StoreInputs, v \in Versions :
          BeginAppend(p, agg, in[1], in[2], v)
    \/ \E p \in Procs : CommitAppend(p)

SpecConc == Init /\ [][NextConc]_vars

(* ------------ every operation that touches the event table ------------ *)
\* A row of event_snapshots
EventSnapshot(id, agg, version, data) ==
    [id |-> id, aggregate_id |-> agg, version |-> version, snapshot_data |-> data]

\* EventStore.save_snapshot(aggregate_id, "cultural_profile", version, data)
SaveSnapshot(agg, version) ==
    /\ Len(snapshots) < MaxSnapshots
    /\ snapshots' = Append(snapshots,
                           EventSnapshot(Len(snapshots) + 1, agg, version, profiles[agg]))
    /\ lastOp' = Op("save_snapshot", agg, version, "ok", NoEvent, log, NoCommand,
                    FALSE, {}, {})
    /\ UNCHANGED <<log, profiles, timeline_cache, network_cache, proc, rebuild,
                   mediator, services, notifVars, stream, fetched, streamVars>>

\* mediator.send_query(GetCulturalProfileQuery(agg)) and
\* event_store.get_events(agg): reads only
SendQuery(agg) ==
    /\ lastOp' = Op("send_query", agg, -1,
                    IF GetCulturalProfileQuery(profiles, agg).exists THEN "ok" ELSE "None",
                    IF get_events(log, agg, 0, -1) = <<>> THEN NoEvent
                    ELSE Head(get_events(log, agg, 0, -1)),
                    log, NoCommand, FALSE, {}, {})
    /\ UNCHANGED <<log, profiles, timeline_cache, network_cache, proc, rebuild, others>>

\* the commands sent next to direct appends: one of each class, for one user
AllCommands ==
    { c \in Commands : c.user_id \in Projected /\ c.valid /\ c.val \in {0, 755} }

NextAll ==
    \/ AppendProjected(StoreInputs)
    \/ \E agg \in Projected, in \in StoreInputs :
          Len(log) < MaxProjEvents /\ AppendEvent(agg, in[1], in[2], 0)
    \/ \E command \in AllCommands :
          Len(log) < MaxProjEvents /\ SendCommand(command)
    \/ ProjectEvent(Len(log), {})
    \/ \E p \in ProjectionNames, agg \in Projected : RebuildProjection(p, agg)
    \/ \E agg \in Projected :
          /\ profiles[agg].exists
          /\ \A i \in 1..Len(snapshots) :
                snapshots[i].version # get_current_version(log, agg)
          /\ SaveSnapshot(agg, get_current_version(log, agg))
    \/ \E agg \in Projected : SendQuery(agg)

SpecAll == Init /\ [][NextAll]_vars

(* ------------- rebuild_projection suspended at its awaits -------------- *)
\* the payloads appended while a rebuild is in flight
RaceInputs ==
    { <<SOCIAL_DATA_INGESTED, EventData(0, 0, TRUE)>>,
      <<CULTURAL_PATTERN_DETECTED, EventData(1, 0, TRUE)>> }

\* the read models after a rebuild step, and the call's return when done
RebuildStep(st, rest, done) ==
    /\ profiles' = st.profiles
    /\ timeline_cache' = st.timeline_cache
    /\ network_cache' = st.network_cache
    /\ rebuild' = [rebuild EXCEPT !.pc = IF done THEN "idle" ELSE "replay",
                                  !.events = rest]
    /\ lastOp' = IF done
                 THEN Op("rebuild_projection", rebuild.agg, -1, "ok", NoEvent, log,
                         NoCommand, FALSE, {rebuild.p}, {})
                 ELSE lastOp
    /\ UNCHANGED <<log, proc, others>>

\* "events = await event_store.get_events(aggregate_id)": the rebuild holds
\* the events read and is suspended
RebuildGetEvents(p, agg) ==
    /\ rebuild.pc = "idle"
    /\ rebuild' = [ pc |-> "read", p |-> p, agg |-> agg,
                    events |-> get_events(log, agg, 0, -1),
                    seen |-> Len(log), during |-> {} ]
    /\ UNCHANGED <<log, profiles, timeline_cache, network_cache, proc, lastOp,
                   others>>

\* The rebuild resumes with the events it read.  The profile projection
\* awaits its delete and then one database write per replayed event; the
\* cache projections reset their entry and replay without suspending.
RebuildClear ==
    /\ rebuild.pc = "read"
    /\ IF rebuild.p = "CulturalProfileProjection"
       THEN RebuildStep([Current EXCEPT !.profiles = clear_projection(@, rebuild.agg)],
                        rebuild.events, rebuild.events = <<>>)
       ELSE LET kept == IF rebuild.p = "CulturalTimelineProjection"
                        THEN timeline_events ELSE network_events
                cleared == IF rebuild.p = "CulturalTimelineProjection"
                           THEN [Current EXCEPT !.timeline_cache[rebuild.agg] = EmptyTimeline]
                           ELSE [Current EXCEPT !.network_cache[rebuild.agg] = EmptyNetwork]
            IN  RebuildStep(replay(rebuild.p, cleared,
                                   SelectSeq(rebuild.events,
                                             LAMBDA e : e.event_type \in kept)),
                            <<>>, TRUE)

\* "for event in events: await self.project_event(event)" of the profile
\* projection, one event per step
RebuildReplayOne ==
    /\ rebuild.pc = "replay"
    /\ rebuild.events # <<>>
    /\ RebuildStep(projection_project_event(rebuild.p, Current, Head(rebuild.events)),
                   Tail(rebuild.events), Tail(rebuild.events) = <<>>)

\* project_event for the newest event, handed over once per rebuild
ProjectNewest ==
    /\ Len(log) \notin rebuild.during
    /\ ProjectEvent(Len(log), {})

NextRace ==
    \/ AppendProjected(RaceInputs)
    \/ ProjectNewest
    \/ \E p \in ProjectionNames, agg \in Projected : RebuildGetEvents(p, agg)
    \/ RebuildClear
    \/ RebuildReplayOne

SpecRace == Init /\ [][NextRace]_vars

(* ------------------------ notification service ------------------------- *)
coreVars == <<log, profiles, timeline_cache, network_cache, proc, lastOp, rebuild,
              snapshots, mediator, services, stream, fetched, streamVars>>

\* the clock's step: the cool-down of HIGH, 5 minutes
TickStep == rate_limits(HIGH)

Subscribers == {1, 2}

\* the calls subscribers and producers make
TypeInputs == {"trend_alert", "recommendation"}
ExpiryInputs == {NoExpiry, TickStep}
PreferenceInputs == [{"trend_alert"} -> BOOLEAN]
Outcomes == {"success", "fail", "raise"}

\* create_notification(user, type, ..., priority, expires_in)
CreateNotification(user, type, priority, expires_in) ==
    /\ LET r == create_notification(notification_queues, last_notification_time,
                                    user_preferences, stats, user, type, priority,
                                    expires_in, now)
       IN  /\ notification_queues' = r.queues
           /\ last_notification_time' = r.times
           /\ stats' = r.stats
           /\ nhist' = [nhist EXCEPT
                  !.last = NLast("create_notification", user, type, priority, r.id,
                                 notification_queues),
                  !.accepted = IF r.id = 0 THEN @
                               ELSE @ \cup {[ id |-> r.id, user |-> user,
                                              type |-> type,
                                              priority |-> priority, at |-> now,
                                              expires_at |->
                                                  IF expires_in = NoExpiry
                                                  THEN NoExpiry
                                                  ELSE now + expires_in ]}]
    /\ UNCHANGED <<user_preferences, now, loop, coreVars>>

\* update_user_preferences(user, preferences)
UpdateUserPreferences(user, preferences) ==
    /\ user_preferences' = DictSet(user_preferences, user, preferences)
    /\ nhist' = [nhist EXCEPT
           !.last = NoCall]
    /\ UNCHANGED <<notification_queues, last_notification_time, stats, now, loop,
                   coreVars>>

\* time passes
Tick ==
    /\ now + TickStep <= MaxTime
    /\ now' = now + TickStep
    /\ nhist' = [nhist EXCEPT !.last = NoCall]
    /\ UNCHANGED <<notification_queues, user_preferences, last_notification_time,
                   stats, loop, coreVars>>

\* variant: the loop ends with its first cycle
Advance_stops(idx) ==
    IF idx = Len(DeliveryOrder) THEN LoopAt("stopped", 1, <<>>)
    ELSE LoopAt("take", idx + 1, <<>>)

\* the loop after the queue at position idx: the next queue, or the sleep
\* that ends the cycle
Advance(idx) ==
    IF idx = Len(DeliveryOrder) THEN LoopAt("sleep", 1, <<>>)
    ELSE LoopAt("take", idx + 1, <<>>)

\* _notification_delivery_loop: "notifications_to_process = queue[:10];
\* self.notification_queues[priority] = queue[10:]"
TakeBatch ==
    /\ loop.pc = "take"
    /\ LET priority == DeliveryOrderAt(loop.idx)
           queue == notification_queues[priority]
       IN  IF queue = <<>>
           THEN /\ loop' = Advance(loop.idx)
                /\ UNCHANGED notification_queues
           ELSE /\ loop' = LoopAt("deliver", loop.idx, Take(queue, BatchSize))
                /\ notification_queues' =
                       [notification_queues EXCEPT ![priority] = Drop(queue, BatchSize)]
    /\ nhist' = [nhist EXCEPT !.last = NoCall]
    /\ UNCHANGED <<user_preferences, last_notification_time, stats, now, coreVars>>

\* "await self._deliver_notification(notification)" for the next
\* notification of the batch
DeliverOne(outcome) ==
    /\ loop.pc = "deliver"
    /\ LET n == Head(loop.batch)
           r == deliver_notification(notification_queues, stats, n, outcome, now)
       IN  /\ notification_queues' = r.queues
           /\ stats' = r.stats
           /\ nhist' = [nhist EXCEPT
                  !.last = NoCall,
                  !.published = IF r.published
                                THEN Append(@, [id |-> n.notification_id,
                                                delivery_attempt |->
                                                    n.delivery_attempts + 1,
                                                outcome |-> outcome])
                                ELSE @,
                  !.ended = IF r.ended = "none" THEN @
                            ELSE @ \cup {[id |-> n.notification_id, how |-> r.ended]},
                  !.cycle = Append(@, [id |-> n.notification_id,
                                       priority |-> n.priority])]
    /\ loop' = IF Tail(loop.batch) = <<>> THEN Advance(loop.idx)
               ELSE LoopAt("deliver", loop.idx, Tail(loop.batch))
    /\ UNCHANGED <<user_preferences, last_notification_time, now, coreVars>>

\* "await asyncio.sleep(5)": the cycle is over, the next one starts
Sleep ==
    /\ loop.pc = "sleep"
    /\ loop' = LoopAt("take", 1, <<>>)
    /\ nhist' = [nhist EXCEPT !.last = NoCall, !.cycle = <<>>]
    /\ UNCHANGED <<notification_queues, user_preferences, last_notification_time,
                   stats, now, coreVars>>

\* the ids queued in `queues`
QueuedIds(queues) ==
    UNION { { queues[priority][i].notification_id : i \in 1..Len(queues[priority]) } :
            priority \in Priorities }

\* one pass of _cleanup_expired_notifications
CleanupExpired ==
    /\ notification_queues' = cleanup_expired(notification_queues, now)
    /\ nhist' = [nhist EXCEPT
           !.last = NoCall,
           !.ended = @ \cup { [id |-> i, how |-> "cleaned"] :
                                i \in QueuedIds(notification_queues)
                                       \ QueuedIds(notification_queues') }]
    /\ UNCHANGED <<user_preferences, last_notification_time, stats, now, loop,
                   coreVars>>

\* One subscriber changes preferences (the other never stores any) and
\* producers create notifications while time passes.
NextCreate ==
    \/ \E user \in Subscribers, type \in TypeInputs, priority \in Priorities :
          /\ stats.notifications_created < MaxNotifications
          /\ CreateNotification(user, type, priority, NoExpiry)
    \/ \E preferences \in PreferenceInputs : UpdateUserPreferences(1, preferences)
    \/ Tick

SpecCreate == Init /\ [][NextCreate]_vars

\* the priorities of the notifications the delivery loop is given
DeliverInputs == {URGENT, MEDIUM}

\* Notifications of one subscriber are created, delivered, cleaned up and
\* expire while time passes.
NextDeliver ==
    \/ \E priority \in DeliverInputs, expires_in \in ExpiryInputs :
          /\ stats.notifications_created < MaxQueued
          /\ CreateNotification(1, "trend_alert", priority, expires_in)
    \/ Tick
    \/ TakeBatch
    \/ \E outcome \in Outcomes : DeliverOne(outcome)
    \/ Sleep
    \/ CleanupExpired

SpecDeliver == Init /\ [][NextDeliver]_vars

(* -------------------- the delivery loop, scheduled --------------------- *)
\* the subscriber and priority of the notifications that arrive: a low one
\* and the urgent ones that arrive around it
Arrivals == {<<1, LOW>>, <<1, URGENT>>, <<2, URGENT>>}

\* what the broker does here: it delivers or reports failure (a call that
\* raises takes the same retry path, see deliver_notification)
LiveOutcomes == {"success", "fail"}

NextLive ==
    \/ \E arrival \in Arrivals :
          /\ stats.notifications_created < MaxArrivals
          /\ CreateNotification(arrival[1], "trend_alert", arrival[2], NoExpiry)
    \/ TakeBatch
    \/ \E outcome \in LiveOutcomes : DeliverOne(outcome)
    \/ Sleep

\* The loop is an asyncio task of a running service: its sleep returns, a
\* broker call returns or raises, and the task is resumed.
SpecLive ==
    /\ Init /\ [][NextLive]_vars
    /\ WF_vars(TakeBatch)
    /\ WF_vars(\E outcome \in LiveOutcomes : DeliverOne(outcome))
    /\ WF_vars(Sleep)

(* ------------------- notifications listed and read ---------------------- *)
\* the call of get_user_notifications or mark_notification_read that just
\* returned `result`
NCall(op, user, id, limit, unread_only, result, before) ==
    [ op |-> op, user |-> user, id |-> id, limit |-> limit,
      unread_only |-> unread_only, result |-> result, queues_before |-> before ]

\* notifications = await notification_service.get_user_notifications(
\*     user_id, limit, unread_only)
GetUserNotifications(user, limit, unread_only) ==
    /\ nhist' = [nhist EXCEPT
           !.last = NCall("get_user_notifications", user, 0, limit, unread_only,
                          get_user_notifications(notification_queues, user, limit,
                                                 unread_only),
                          notification_queues)]
    /\ UNCHANGED <<notification_queues, user_preferences, last_notification_time,
                   stats, now, loop, coreVars>>

\* success = await notification_service.mark_notification_read(user_id, id)
MarkNotificationRead(user, id) ==
    /\ LET r == mark_notification_read(notification_queues, user, id)
       IN  /\ notification_queues' = r.queues
           /\ nhist' = [nhist EXCEPT
                  !.last = NCall("mark_notification_read", user, id, 0, FALSE,
                                 r.result, notification_queues)]
    /\ UNCHANGED <<user_preferences, last_notification_time, stats, now, loop,
                   coreVars>>

\* get_user_notifications: "limit: int = 50"
DefaultLimit == 50

\* the limits the route passes on: its query parameter is any integer
LimitInputs == {-1, 0, 1, DefaultLimit}

\* Notifications are created for two subscribers while time passes; they
\* are marked read and listed.
NextRead ==
    \/ \E user \in Subscribers, priority \in DeliverInputs :
          /\ stats.notifications_created < MaxNotifications
          /\ CreateNotification(user, "trend_alert", priority, NoExpiry)
    \/ Tick
    \/ \E user \in Subscribers, id \in 1..MaxNotifications :
          MarkNotificationRead(user, id)
    \/ \E user \in Subscribers, limit \in LimitInputs, unread_only \in BOOLEAN :
          GetUserNotifications(user, limit, unread_only)

SpecRead == Init /\ [][NextRead]_vars

\* Notifications of two subscribers are created, fail to be delivered and
\* are queued again, or are delivered, while they are marked read.
NextMark ==
    \/ \E user \in Subscribers :
          /\ stats.notifications_created < MaxNotifications
          /\ CreateNotification(user, "trend_alert", URGENT, NoExpiry)
    \/ TakeBatch
    \/ \E outcome \in LiveOutcomes : DeliverOne(outcome)
    \/ Sleep
    \/ \E user \in Subscribers, id \in 1..MaxNotifications :
          MarkNotificationRead(user, id)

SpecMark == Init /\ [][NextMark]_vars

(* ------------------ a delivery cycle over filled queues ---------------- *)
\* The queue `count` creates at `priority` leave, made at time 0 by the
\* subscribers first, first + 1, ..., each the subscriber's first create.
Burst(priority, first, count) ==
    [ i \in 1..count |->
        CulturalNotification(first + i - 1, first + i - 1, "trend_alert", priority,
                             0, NoExpiry) ]

\* queue lengths that leave a queue empty, within one batch, and beyond it
CycleCounts == {0, 1, BatchSize + 1}

\* The service after bursts of creates filled its queues: low, then urgent,
\* medium and high.
InitCycle ==
    /\ log = <<>>
    /\ profiles = [u \in Aggregates |-> NoProfile]
    /\ timeline_cache = [u \in Aggregates |-> NoTimeline]
    /\ network_cache = [u \in Aggregates |-> NoNetwork]
    /\ proc = [p \in Procs |-> Idle]
    /\ lastOp = Op("init", "none", 0, "ok", NoEvent, <<>>, NoCommand, FALSE, {}, {})
    /\ rebuild = NoRebuild
    /\ snapshots = <<>>
    /\ mediator = CQRSMediator
    /\ services = NotStarted
    /\ stream = StreamInput(<<>>)
    /\ fetched = NoFetch
    /\ InitProcessor
    /\ user_preferences = EmptyDict
    /\ now = 0
    /\ loop = LoopAt("take", 1, <<>>)
    /\ \E cu \in CycleCounts, ch \in {0, 1}, cm \in {0, 1}, cl \in CycleCounts :
          LET queues == [ priority \in Priorities |->
                            CASE priority = LOW -> Burst(LOW, 1, cl)
                              [] priority = URGENT -> Burst(URGENT, cl + 1, cu)
                              [] priority = MEDIUM -> Burst(MEDIUM, cl + cu + 1, cm)
                              [] OTHER -> Burst(HIGH, cl + cu + cm + 1, ch) ]
              all == queues[LOW] \o queues[URGENT] \o queues[MEDIUM] \o queues[HIGH]
          IN  /\ notification_queues = queues
              /\ last_notification_time =
                     [ user \in 1..Len(all) |-> (all[user].priority :> 0) ]
              /\ stats = [EmptyStats EXCEPT !.notifications_created = Len(all)]
              /\ nhist = [NoHistory EXCEPT
                     !.accepted = { [ id |-> i, user |-> i, type |-> "trend_alert",
                                      priority |-> all[i].priority, at |-> 0,
                                      expires_at |-> NoExpiry ] :
                                    i \in 1..Len(all) }]

\* the broker calls that failed so far
Failures == Len(SelectSeq(nhist.published, LAMBDA c : c.outcome # "success"))

NextCycle ==
    \/ TakeBatch
    \/ \E outcome \in Outcomes :
          /\ outcome # "success" => Failures < MaxFailures
          /\ DeliverOne(outcome)
    \/ Sleep

SpecCycle == InitCycle /\ [][NextCycle]_vars

(* ------------------- get_events over version ranges -------------------- *)
\* event_store.get_events(agg, from_version, to_version)
GetEvents(agg, from_version, to_version) ==
    /\ fetched' = Fetch("get_events", agg, from_version, to_version, log,
                        get_events(log, agg, from_version, to_version))
    /\ UNCHANGED <<log, profiles, timeline_cache, network_cache, proc, lastOp, rebuild,
                   snapshots, mediator, services, notifVars, stream, streamVars>>

\* Events are appended to both aggregates and read back over every range.
NextGet ==
    \/ \E agg \in Aggregates, in \in StoreInputs :
          /\ Len(log) < MaxEvents
          /\ AppendEvent(agg, in[1], in[2], get_current_version(log, agg))
    \/ \E agg \in Aggregates, from_version \in 0..MaxEvents,
          to_version \in {-1} \cup 0..MaxEvents :
          GetEvents(agg, from_version, to_version)

SpecGet == Init /\ [][NextGet]_vars

(* ---------------- stream processor functions on inputs ------------------ *)
\* the sequences over S of length at most n
SeqsUpTo(S, n) == UNION { [1..k -> S] : k \in 0..n }

StreamPlatforms == {"spotify", "instagram", "tiktok", "youtube"}

\* events of three platforms on both sides of a 5-minute boundary
DetectEvents ==
    { StreamEvent(platform, timestamp, <<>>) :
        platform \in StreamPlatforms \ {"youtube"}, timestamp \in {0, 299, 300} }

\* an older part of the window: one tiktok event followed by 17 instagram
\* events, all in the first 5 minutes
Older ==
    <<StreamEvent("tiktok", 0, <<>>)>> \o [i \in 1..17 |-> StreamEvent("instagram", 0, <<>>)]

\* the event lists handed to _detect_cross_platform_correlation
DetectInputs ==
    { older \o recent : older \in {<<>>, Older}, recent \in SeqsUpTo(DetectEvents, MaxLen) }

InitDetect == InitCore /\ stream \in { StreamInput(events) : events \in DetectInputs }

\* patterns = await self._detect_cross_platform_correlation(user_id, events)
DetectCrossPlatformCorrelation ==
    /\ stream.ran = "none"
    /\ stream' = [stream EXCEPT
           !.ran = "detect_cross_platform_correlation",
           !.patterns = detect_cross_platform_correlation(stream.events)]
    /\ UNCHANGED <<log, profiles, timeline_cache, network_cache, proc, lastOp, rebuild,
                   snapshots, mediator, services, notifVars, fetched, streamVars>>

NextDetect == DetectCrossPlatformCorrelation

SpecDetect == InitDetect /\ [][NextDetect]_vars

\* category lists: none, six, and six more that share one with the first
CategoryInputs == {<<>>, [i \in 1..6 |-> i], [i \in 1..6 |-> i + 5]}

ScoreEvents ==
    { StreamEvent(platform, 0, categories) :
        platform \in StreamPlatforms, categories \in CategoryInputs }

\* the event lists handed to _calculate_diversity_score
ScoreInputs == SeqsUpTo(ScoreEvents, MaxLen)

InitScore == InitCore /\ stream \in { StreamInput(events) : events \in ScoreInputs }

\* score = self._calculate_diversity_score(events)
CalculateDiversityScore ==
    /\ stream.ran = "none"
    /\ stream' = [stream EXCEPT
           !.ran = "calculate_diversity_score",
           !.score = calculate_diversity_score(stream.events)]
    /\ UNCHANGED <<log, profiles, timeline_cache, network_cache, proc, lastOp, rebuild,
                   snapshots, mediator, services, notifVars, fetched, streamVars>>

NextScore == CalculateDiversityScore

SpecScore == InitScore /\ [][NextScore]_vars

\* the events of one window: an instagram event without categories, an
\* instagram event listing ten categories, a tiktok event listing the same
\* ten.  On the sub-windows built from these the sixtieths of
\* calculate_diversity_score are the floating-point scores of the source:
\* 1/6, 1/2 and 5/6, whose differences the source computes exactly.
ChangeEvents ==
    { StreamEvent("instagram", 0, <<>>),
      StreamEvent("instagram", 0, [i \in 1..10 |-> i]),
      StreamEvent("tiktok", 0, [i \in 1..10 |-> i]) }

\* the event lists handed to _detect_diversity_changes: up to MaxLen events
\* of any shape, followed by up to three runs of four instagram events, each
\* run without categories or with ten
ChangeInputs ==
    { head \o [ i \in 1..(4 * Len(runs)) |->
                  StreamEvent("instagram", 0, runs[((i - 1) \div 4) + 1]) ] :
        head \in SeqsUpTo(ChangeEvents, MaxLen),
        runs \in SeqsUpTo({<<>>, [i \in 1..10 |-> i]}, 3) }

InitChange == InitCore /\ stream \in { StreamInput(events) : events \in ChangeInputs }

\* patterns = await self._detect_diversity_changes(user_id, events)
DetectDiversityChanges ==
    /\ stream.ran = "none"
    /\ stream' = [stream EXCEPT
           !.ran = "detect_diversity_changes",
           !.patterns = detect_diversity_changes(1, stream.events, 0)]
    /\ UNCHANGED <<log, profiles, timeline_cache, network_cache, proc, lastOp, rebuild,
                   snapshots, mediator, services, notifVars, fetched, streamVars>>

NextChange == DetectDiversityChanges

SpecChange == InitChange /\ [][NextChange]_vars

(* ============================== claims ================================= *)
\* The versions stored for agg are exactly 1..N, N the number of its events.
VersionsExactly1toN(rows, agg) ==
    VersionsOf(rows, agg) = 1..Len(RowsOf(rows, agg))

\* C1 (SpecConc): under any interleaving of append_event calls on the same
\* aggregate with the same expected_version at most one succeeds, so every
\* aggregate's stored versions are exactly 1..N, without duplicate or gap.
C1_VersionsUniqueUnderConcurrency ==
    \A agg \in Aggregates : VersionsExactly1toN(log, agg)

\* C2 (Spec): an append_event whose expected_version differs from the
\* aggregate's current highest version (0 if none), lower or higher, raises
\* ConcurrencyException and leaves the stored events unchanged.
C2_MismatchedAppendRejected ==
    ( /\ lastOp.op = "append_event"
      /\ lastOp.expected # get_current_version(lastOp.log_before, lastOp.agg) )
    => ( /\ lastOp.result = "ConcurrencyException"
         /\ lastOp.event = NoEvent
         /\ log = lastOp.log_before )

\* a stale append has been rejected on an aggregate that holds events
C2_Witness ==
    /\ lastOp.op = "append_event"
    /\ lastOp.expected < get_current_version(lastOp.log_before, lastOp.agg)
    /\ lastOp.result = "ConcurrencyException"
    /\ RowsOf(log, lastOp.agg) # <<>>

\* C3 (Spec): with calls run one at a time, an append_event whose
\* expected_version equals the current highest version stores exactly one new
\* event, with version expected_version + 1, and returns it; after any
\* sequence of calls every aggregate's stored versions are exactly 1..N.
C3_MatchingAppendStoresNextVersion ==
    /\ ( /\ lastOp.op = "append_event"
         /\ lastOp.expected = get_current_version(lastOp.log_before, lastOp.agg) )
       => ( /\ lastOp.result = "ok"
            /\ log = Append(lastOp.log_before, lastOp.event)
            /\ lastOp.event.aggregate_id = lastOp.agg
            /\ lastOp.event.version = lastOp.expected + 1 )
    /\ \A agg \in Aggregates : VersionsExactly1toN(log, agg)

\* both aggregates hold events and a successful append has just stored a
\* second version
C3_Witness ==
    /\ lastOp.op = "append_event"
    /\ lastOp.result = "ok"
    /\ lastOp.event.version = 2
    /\ \A agg \in Aggregates : RowsOf(log, agg) # <<>>

\* the events of agg, the event of version v at position v
ByVersion(rows, agg) ==
    [ v \in 1..Len(RowsOf(rows, agg)) |->
        CHOOSE e \in { rows[i] : i \in 1..Len(rows) } :
            e.aggregate_id = agg /\ e.version = v ]

\* C4 (Spec): after send_command returned for an IngestSocialData command and
\* then for an UpdateDiversityScore command with new_score s on user U, the
\* profile query returns a profile of U whose diversity_score is s, and U's
\* log holds exactly two events, at versions 1 and 2.
C4_QueryObservesCommand ==
    LET U == lastOp.cmd.user_id
        evs == RowsOf(log, U)
    IN  ( /\ lastOp.op = "send_command"
          /\ lastOp.result = "ok"
          /\ lastOp.cmd.ctype = UpdateDiversityScoreCommand
          /\ Len(evs) = 2
          /\ evs[1].cmd.ctype = IngestSocialDataCommand
          /\ evs[2] = lastOp.event )
        => ( /\ GetCulturalProfileQuery(profiles, U).exists
             /\ GetCulturalProfileQuery(profiles, U).diversity_score = lastOp.cmd.val
             /\ evs[1].version = 1
             /\ evs[2].version = 2 )

\* C7 (Spec): a command handler retried after its event was already appended
\* fails with a concurrency conflict and appends no second event for the
\* command.
C7_RetriedCommandRejected ==
    ( /\ lastOp.op = "send_command"
      /\ lastOp.cmd.ctype \in command_handlers
      /\ \E i \in 1..Len(lastOp.log_before) : lastOp.log_before[i].cmd = lastOp.cmd )
    => ( /\ lastOp.result = "ConcurrencyException"
         /\ log = lastOp.log_before )

\* C8 (Spec): send_command either returns after exactly one event was
\* appended for the aggregate (and dispatched), or raises with the log
\* unchanged and nothing dispatched; a handler failing during the dispatch
\* leaves the appended event in place.
C8_CommandAppendsOneOrNothing ==
    lastOp.op = "send_command" =>
        \/ /\ lastOp.result = "ok"
           /\ lastOp.dispatched
           /\ lastOp.event.aggregate_id = lastOp.cmd.user_id
           /\ log = Append(lastOp.log_before, lastOp.event)
        \/ /\ lastOp.result # "ok"
           /\ ~lastOp.dispatched
           /\ lastOp.failed = {}
           /\ log = lastOp.log_before

\* a command raised with nothing appended after another command's dispatch
\* met a failing handler and kept its event
C8_Witness ==
    /\ lastOp.op = "send_command"
    /\ lastOp.result = "ValueError"
    /\ \E i \in 1..Len(log) :
          log[i].cmd.ctype = IngestSocialDataCommand /\ ~log[i].event_data.valid

\* C9 (Spec): when a handler raises during dispatch, the dispatch does not
\* raise, every handler that matches the event type has run, and
\* send_command returns the appended event.
C9_HandlerFailureIsolated ==
    (lastOp.op = "send_command" /\ lastOp.failed # {}) =>
        /\ lastOp.result = "ok"
        /\ Len(log) = Len(lastOp.log_before) + 1
        /\ lastOp.event = log[Len(log)]
        /\ lastOp.ran = { h \in handlers : can_handle(h, lastOp.event.event_type) }

\* a handler raised while a command's event was dispatched
C9_Witness ==
    /\ lastOp.op = "send_command"
    /\ "SocialDataIngestedHandler" \in lastOp.failed

\* the read model of projection p for agg, as its accessor returns it (a
\* missing cache entry reads as an empty one)
View(p, st, agg) ==
    CASE p = "CulturalProfileProjection" -> <<st.profiles[agg]>>
      [] p = "CulturalTimelineProjection" -> <<st.timeline_cache[agg].entries>>
      [] OTHER -> << st.network_cache[agg].nodes, st.network_cache[agg].edges,
                    st.network_cache[agg].last_updated >>

\* the read model of projection p for agg, as stored
Stored(p, st, agg) ==
    CASE p = "CulturalProfileProjection" -> <<st.profiles[agg]>>
      [] p = "CulturalTimelineProjection" -> <<st.timeline_cache[agg]>>
      [] OTHER -> <<st.network_cache[agg]>>

\* the projections as constructed, and with agg's read models emptied
Constructed ==
    ReadModels([u \in Aggregates |-> NoProfile], [u \in Aggregates |-> NoTimeline],
               [u \in Aggregates |-> NoNetwork])

Emptied(agg) ==
    ReadModels([Constructed.profiles EXCEPT ![agg] = NoProfile],
               [Constructed.timeline_cache EXCEPT ![agg] = EmptyTimeline],
               [Constructed.network_cache EXCEPT ![agg] = EmptyNetwork])

\* C5 (SpecProj): for each projection and any event history of an aggregate,
\* the state after rebuild_projection(aggregate) equals the state obtained by
\* applying project_event to the same events one by one, in version order,
\* to an empty projection.
C5_RebuildEqualsFold ==
    lastOp.op = "rebuild_projection" =>
        \A p \in lastOp.ran :
            /\ Stored(p, Current, lastOp.agg)
                 = Stored(p, replay(p, Emptied(lastOp.agg), ByVersion(log, lastOp.agg)),
                          lastOp.agg)
            /\ View(p, Current, lastOp.agg)
                 = View(p, replay(p, Constructed, ByVersion(log, lastOp.agg)),
                        lastOp.agg)

\* the timeline was rebuilt to the aggregate's one pattern while the log
\* also holds a pattern of another aggregate
C5_Witness ==
    /\ lastOp.op = "rebuild_projection"
    /\ "CulturalTimelineProjection" \in lastOp.ran
    /\ Len(timeline_cache[lastOp.agg].entries) = 1
    /\ \E i \in 1..Len(log) : log[i].aggregate_id # lastOp.agg

\* C6 (SpecProj): applying project_event a second time for the same event
\* leaves every projection as the first application left it.
C6_DuplicateDeliveryIdempotent ==
    [][ ( /\ lastOp.op = "project_event"
          /\ lastOp.failed = {}
          /\ lastOp'.op = "project_event"
          /\ lastOp'.failed = {}
          /\ lastOp'.event = lastOp.event )
        => ( /\ profiles' = profiles
             /\ timeline_cache' = timeline_cache
             /\ network_cache' = network_cache ) ]_vars

\* C10 (SpecMgr): ProjectionManager.project_event applies the event to every
\* projection; when one raises, the others are still applied and the call
\* returns normally.
C10_ProjectionFailureIsolated ==
    [][ lastOp'.op = "project_event" =>
          /\ lastOp'.result = "ok"
          /\ lastOp'.ran = ProjectionNames
          /\ \A p \in ProjectionNames \ lastOp'.failed :
                \A u \in Aggregates :
                    Stored(p, ReadModels(profiles', timeline_cache', network_cache'), u)
                      = Stored(p, projection_project_event(p, Current, lastOp'.event), u)
      ]_vars

\* the first projection raised on a pattern event and the two after it hold
\* the pattern
C10_Witness ==
    /\ lastOp.op = "project_event"
    /\ lastOp.failed = {"CulturalProfileProjection"}
    /\ lastOp.event.event_type = CULTURAL_PATTERN_DETECTED
    /\ timeline_cache[lastOp.agg].entries # <<>>
    /\ network_cache[lastOp.agg].nodes # <<>>

\* the log positions of agg's events appended after position n
AppendedAfter(rows, agg, n) ==
    { i \in (n + 1)..Len(rows) : rows[i].aggregate_id = agg }

\* C11 (SpecRace): when project_event for a newly appended event of aggregate
\* A ran while rebuild_projection(A) was in flight, then once both have
\* finished the projection equals the fold of all of A's events in version
\* order.
C11_ConcurrentFoldSerialized ==
    ( /\ lastOp.op = "rebuild_projection"
      /\ rebuild.pc = "idle"
      /\ rebuild.during # {}
      /\ rebuild.during = AppendedAfter(log, rebuild.agg, rebuild.seen) )
    => \A p \in lastOp.ran :
           Stored(p, Current, lastOp.agg)
             = Stored(p, replay(p, Emptied(lastOp.agg), ByVersion(log, lastOp.agg)),
                      lastOp.agg)

\* C12 (SpecAll): an event, once appended, is never modified or removed:
\* over every append, command, dispatch, projection update, rebuild, snapshot
\* save and query, every stored event stays stored, with the same id,
\* aggregate, type, version and payload.
C12_EventsImmutable ==
    [][ \A i \in 1..Len(log) : i <= Len(log') /\ log'[i] = log[i] ]_vars

\* a profile projected from two stored events was snapshotted and then
\* rebuilt, and both events are as appended
C12_Witness ==
    /\ lastOp.op = "rebuild_projection"
    /\ "CulturalProfileProjection" \in lastOp.ran
    /\ Len(log) = 2
    /\ \A i \in 1..2 : log[i].aggregate_id = lastOp.agg /\ log[i].version = i
    /\ snapshots # <<>>
    /\ snapshots[1].snapshot_data.exists
    /\ profiles[lastOp.agg].exists

(* ------------------------- the stream processor ------------------------- *)
\* await self._analyze_user_patterns(user_id) at the windows `windows` and
\* the statistics `counted`, inside the call `last` that appended `appended`
\* events.  The detectors do not suspend, so the analysis runs to its
\* first publish without interleaving; the broker accepts every insight.
AnalyzeUserPatterns(user_id, windows, counted, last, event, appended) ==
    LET events == DictGet(windows.deque, user_id, <<>>)
        ran == Len(events) >= 2
        patterns == IF ran THEN detect_patterns(user_id, events, now) ELSE <<>>
        published == [ k \in 1..Len(patterns) |->
                         create_insight_from_pattern(user_id, patterns[k]) ]
        before == DictGet(shist.analysis, user_id, Analysis(0, 0))
    IN  /\ pattern_cache' =
               IF patterns # <<>>
               THEN DictSet(pattern_cache, user_id,
                            DictGet(pattern_cache, user_id, <<>>) \o patterns)
               ELSE pattern_cache
        /\ stream_stats' = [counted EXCEPT
               !.patterns_detected = @ + Len(patterns),
               !.insights_generated = @ + Len(published)]
        /\ insights' = [insights EXCEPT !.topic = @ \o published]
        /\ shist' = SHist(last, user_id, event, ran,
                          DictSet(shist.analysis, user_id,
                                  IF ran THEN Analysis(before.runs + 1, 0)
                                  ELSE Analysis(before.runs, before.since + appended)),
                          shist.messages + appended)

\* CulturalStreamProcessor._process_cultural_event, the handler of topic
\* cultural-events
ProcessCulturalEvent(event_data) ==
    /\ IF event_data = Malformed
       THEN /\ stream_stats' = [stream_stats EXCEPT !.processing_errors = @ + 1]
            /\ shist' = SHist("process_cultural_event", 0, Malformed, FALSE,
                              shist.analysis, shist.messages + 1)
            /\ UNCHANGED <<event_windows, pattern_cache, insights>>
       ELSE LET user_id == event_data.user_id
                windows ==
                    Windows(IF user_id \in DOMAIN event_windows.deque
                            THEN event_windows.keys
                            ELSE Append(event_windows.keys, user_id),
                            DictSet(event_windows.deque, user_id,
                                    DequeAppend(DictGet(event_windows.deque, user_id, <<>>),
                                                event_data)))
            IN  /\ event_windows' = windows
                /\ AnalyzeUserPatterns(user_id, windows,
                       [stream_stats EXCEPT !.events_processed = @ + 1],
                       "process_cultural_event", event_data, 1)
    /\ UNCHANGED <<log, profiles, timeline_cache, network_cache, proc, lastOp, rebuild,
                   snapshots, mediator, services, notifVars, stream, fetched, sweep>>

\* _pattern_analysis_loop wakes from asyncio.sleep(30) and lists the keys
SweepWake ==
    /\ sweep.pc = "sleep"
    /\ sweep.count < MaxSweeps
    /\ now < MaxTime
    /\ now' = now + 1
    /\ sweep' = SweepAt("visit", event_windows.keys, sweep.count + 1)
    /\ UNCHANGED <<log, profiles, timeline_cache, network_cache, proc, lastOp, rebuild,
                   snapshots, mediator, services, notification_queues, user_preferences,
                   last_notification_time, stats, loop, nhist, stream, fetched,
                   event_windows, pattern_cache, stream_stats, insights, shist>>

\* one iteration of "for user_id in list(self.event_windows.keys())"
SweepVisit ==
    /\ sweep.pc = "visit"
    /\ sweep.todo # <<>>
    /\ LET user_id == Head(sweep.todo)
       IN  IF Len(event_windows.deque[user_id]) > 0
           THEN AnalyzeUserPatterns(user_id, event_windows, stream_stats,
                                    "pattern_analysis_loop", shist.event, 0)
           ELSE UNCHANGED <<pattern_cache, stream_stats, insights, shist>>
    /\ sweep' = SweepAt("visit", Tail(sweep.todo), sweep.count)
    /\ UNCHANGED <<log, profiles, timeline_cache, network_cache, proc, lastOp, rebuild,
                   snapshots, mediator, services, notifVars, stream, fetched, event_windows>>

\* the for loop is over: await asyncio.sleep(30)
SweepSleep ==
    /\ sweep.pc = "visit"
    /\ sweep.todo = <<>>
    /\ sweep' = SweepAt("sleep", <<>>, sweep.count)
    /\ UNCHANGED <<log, profiles, timeline_cache, network_cache, proc, lastOp, rebuild,
                   snapshots, mediator, services, notifVars, stream, fetched,
                   event_windows, pattern_cache, stream_stats, insights, shist>>

\* the platform and category list of arriving events: no category, one
\* category listed twice, ten categories
ArrivalShapes ==
    { <<"tiktok", <<>>>>, <<"spotify", <<1, 1>>>>, <<"spotify", [i \in 1..10 |-> i]>> }

\* the messages topic cultural-events may hand to the handler next: a new
\* event, the last event once more, or a message the model rejects
StreamArrivals ==
    { KafkaCulturalEvent(stream_stats.events_processed + 1, user_id, shape[1], 0, shape[2]) :
        user_id \in Subscribers, shape \in ArrivalShapes }
    \cup {shist.event, Malformed}

\* n events of one platform without categories: no detector emits on them
Quiet(user_id, n) == [i \in 1..n |-> KafkaCulturalEvent(i, user_id, "instagram", 0, <<>>)]

\* the processor after subscriber 1 sent n quiet events, the sweep asleep
InitWindows ==
    \E n \in {0, 9, window_maxlen} :
        IF n = 0 THEN InitProcessor
        ELSE /\ event_windows = Windows(<<1>>, 1 :> Quiet(1, n))
             /\ pattern_cache = EmptyDict
             /\ stream_stats = StreamStats(n, 0, 0, 0)
             /\ sweep = SweepAt("sleep", <<>>, 0)
             /\ insights = [topic |-> <<>>, websocket |-> 0]
             /\ shist = SHist("process_cultural_event", 1, Quiet(1, n)[n], TRUE,
                              1 :> Analysis(n - 1, 0), 0)

InitStream == InitRest /\ stream = StreamInput(<<>>) /\ InitWindows

NextStream ==
    \/ \E event_data \in StreamArrivals :
          /\ shist.messages < MaxStreamEvents
          /\ ProcessCulturalEvent(event_data)
    \/ SweepWake
    \/ SweepVisit
    \/ SweepSleep

SpecStream == InitStream /\ [][NextStream]_vars

(* ------------------- insights on their way to consumers ----------------- *)
\* WebSocketManager._handle_cultural_insight (api/routes/websocket.py), the
\* handler of the one subscription to topic cultural-insights: it sends the
\* next insight to the subscriber's sockets
HandleCulturalInsight ==
    /\ insights.websocket < Len(insights.topic)
    /\ insights' = [insights EXCEPT !.websocket = @ + 1]
    /\ UNCHANGED <<log, profiles, timeline_cache, network_cache, proc, lastOp, rebuild,
                   snapshots, mediator, services, notifVars, stream, fetched,
                   event_windows, pattern_cache, stream_stats, sweep, shist>>

\* Events arrive and are analysed, the sweep runs, the WebSocket manager
\* consumes the insights, and callers of the notification service create
\* trend alerts.
NextInsight ==
    \/ \E event_data \in StreamArrivals :
          /\ shist.messages < MaxStreamEvents
          /\ ProcessCulturalEvent(event_data)
    \/ SweepWake
    \/ SweepVisit
    \/ SweepSleep
    \/ HandleCulturalInsight
    \/ \E user \in Subscribers :
          /\ stats.notifications_created < MaxNotifications
          /\ CreateNotification(user, "trend_alert", MEDIUM, NoExpiry)

\* weak fairness of SweepVisit, with ENABLED <<SweepVisit>>_vars written
\* out: the step is possible exactly while the for loop has a key left
FairSweepVisit ==
    \/ []<>~(sweep.pc = "visit" /\ sweep.todo # <<>>)
    \/ []<><<SweepVisit>>_vars

\* The background task and the consumer of the topic are asyncio tasks of
\* one event loop: each runs again whenever it can.
SpecInsight ==
    /\ Init /\ [][NextInsight]_vars
    /\ WF_vars(SweepWake) /\ FairSweepVisit /\ WF_vars(SweepSleep)
    /\ WF_vars(HandleCulturalInsight)

(* ---------------------- services started and stopped -------------------- *)
\* the loops start() hands to asyncio.create_task
LoopsOf(service) ==
    IF service = "notification_service"
    THEN <<"_notification_delivery_loop", "_cleanup_expired_notifications">>
    ELSE <<"_pattern_analysis_loop", "_cleanup_expired_patterns">>

\* the start() calls made so far: each created one task per loop
Starts == Len(services["notification_service"].tasks) \div 2
          + Len(services["stream_processor"].tasks) \div 2

\* start() of either service: "self.running = True", then one
\* asyncio.create_task per loop.  Tasks created by earlier calls stay.
Start(service) ==
    /\ Starts < MaxStarts
    /\ services' = [services EXCEPT ![service] =
           Service(TRUE,
                   @.tasks \o [i \in 1..2 |-> Task(LoopsOf(service)[i], "ready", FALSE, FALSE)])]
    /\ UNCHANGED <<log, profiles, timeline_cache, network_cache, proc, lastOp, rebuild,
                   snapshots, mediator, notifVars, stream, fetched, streamVars>>

\* stop() of either service: "self.running = False"; no task is cancelled
Stop(service) ==
    /\ services' = [services EXCEPT ![service] =
           Service(FALSE,
                   [i \in 1..Len(@.tasks) |-> [@.tasks[i] EXCEPT !.stopped = TRUE]])]
    /\ UNCHANGED <<log, profiles, timeline_cache, network_cache, proc, lastOp, rebuild,
                   snapshots, mediator, notifVars, stream, fetched, streamVars>>

\* "while self.running:" evaluated by a task: it enters a cycle or ends
TestRunning(service, task) ==
    IF services[service].running
    THEN [task EXCEPT !.pc = "cycle", !.after_stop = task.stopped]
    ELSE [task EXCEPT !.pc = "done"]

\* a task runs for the first time, or wakes from the asyncio.sleep that
\* ends a cycle, and tests the flag
LoopTest(service, i) ==
    /\ i \in 1..Len(services[service].tasks)
    /\ services[service].tasks[i].pc \in {"ready", "sleep"}
    /\ services' = [services EXCEPT ![service].tasks[i] = TestRunning(service, @)]
    /\ UNCHANGED <<log, profiles, timeline_cache, network_cache, proc, lastOp, rebuild,
                   snapshots, mediator, notifVars, stream, fetched, streamVars>>

\* a task finishes the body of its cycle and goes to sleep; the queues, the
\* windows and the pattern cache are empty here, so the body changes nothing
LoopCycle(service, i) ==
    /\ i \in 1..Len(services[service].tasks)
    /\ services[service].tasks[i].pc = "cycle"
    /\ services' = [services EXCEPT ![service].tasks[i].pc = "sleep"]
    /\ UNCHANGED <<log, profiles, timeline_cache, network_cache, proc, lastOp, rebuild,
                   snapshots, mediator, notifVars, stream, fetched, streamVars>>

NextStop ==
    \/ \E service \in ServiceNames : Start(service)
    \/ \E service \in ServiceNames : Stop(service)
    \/ \E service \in ServiceNames, i \in 1..(2 * MaxStarts) : LoopTest(service, i)
    \/ \E service \in ServiceNames, i \in 1..(2 * MaxStarts) : LoopCycle(service, i)

SpecStop == Init /\ [][NextStop]_vars

(* ------------------- claims: notification service ---------------------- *)
\* what get_user_notifications returns to `user`
Listed(queues, user) == get_user_notifications(queues, user, DefaultLimit, FALSE)

\* the accepted create `a` was for the subscriber and priority of the last
\* call, and the last call falls within the cool-down that `a` started
InCoolDownOf(a) ==
    /\ nhist.last.op = "create_notification"
    /\ a.id # nhist.last.id
    /\ a.user = nhist.last.user
    /\ a.priority = nhist.last.priority
    /\ now - a.at < rate_limits(a.priority)

\* C13: a create_notification call for subscriber S at priority P made
\* within P's cool-down after an earlier accepted create for S and P returns
\* no id and enqueues nothing, and what get_user_notifications lists for any
\* subscriber is what it listed before the call: only accepted creates are
\* ever listed.
C13_CoolDownSuppresses ==
    /\ \A a \in nhist.accepted :
          InCoolDownOf(a) =>
              /\ nhist.last.id = 0
              /\ notification_queues = nhist.last.queues_before
              /\ \A user \in Subscribers :
                    Listed(notification_queues, user)
                      = Listed(nhist.last.queues_before, user)
    /\ QueuedIds(notification_queues) \subseteq { a.id : a \in nhist.accepted }

\* a second create for the same subscriber and priority, later than the
\* first but within its cool-down, of a type the subscriber has not disabled
C13_Witness ==
    /\ nhist.last.op = "create_notification"
    /\ nhist.last.id = 0
    /\ should_send_notification(user_preferences, nhist.last.user, nhist.last.type)
    /\ \E a \in nhist.accepted : InCoolDownOf(a) /\ a.at < now

\* the subscriber of the last call stored a preference for its type
HasPreference ==
    /\ nhist.last.user \in DOMAIN user_preferences
    /\ nhist.last.type \in DOMAIN user_preferences[nhist.last.user]

\* C14: create_notification for a type the subscriber has disabled returns
\* no id and enqueues nothing; for a type without a stored preference, and
\* outside every cool-down, it returns an id and enqueues the notification
\* as it does for an enabled type.
C14_DisabledTypeSuppressed ==
    nhist.last.op = "create_notification" =>
        /\ (HasPreference /\ ~user_preferences[nhist.last.user][nhist.last.type])
              => /\ nhist.last.id = 0
                 /\ notification_queues = nhist.last.queues_before
        /\ (~HasPreference /\ \A a \in nhist.accepted : ~InCoolDownOf(a))
              => /\ nhist.last.id # 0
                 /\ nhist.last.id \in QueuedIds(notification_queues)
                 /\ nhist.last.id \notin QueuedIds(nhist.last.queues_before)

\* a create suppressed by the preference alone, of a subscriber for whom a
\* type without a stored preference was accepted
C14_Witness ==
    /\ nhist.last.op = "create_notification"
    /\ nhist.last.id = 0
    /\ HasPreference
    /\ ~user_preferences[nhist.last.user][nhist.last.type]
    /\ \A a \in nhist.accepted : ~InCoolDownOf(a)
    /\ \E a \in nhist.accepted :
          a.user = nhist.last.user /\ a.type \notin DOMAIN user_preferences[a.user]

\* the broker calls made for notification id, in order
CallsFor(id) == SelectSeq(nhist.published, LAMBDA c : c.id = id)

\* notification id is neither queued nor in the batch being delivered
Gone(id) ==
    /\ id \notin QueuedIds(notification_queues)
    /\ \A i \in 1..Len(loop.batch) : loop.batch[i].notification_id # id

\* the notifications that left the service unexpired after broker calls
\* that all failed
FailedForGood ==
    { a \in nhist.accepted :
        /\ Gone(a.id)
        /\ CallsFor(a.id) # <<>>
        /\ \A i \in 1..Len(CallsFor(a.id)) : CallsFor(a.id)[i].outcome # "success"
        /\ \A e \in nhist.ended : e.id = a.id => e.how \notin {"expired", "cleaned"} }

\* C15: a notification whose every delivery attempt fails (the broker
\* reports failure or raises) is attempted exactly max_delivery_attempts
\* times, is then out of the queues and counted once in
\* notifications_failed, and is never marked delivered.
C15_FailingDeliveryCountedOnce ==
    /\ \A a \in FailedForGood :
          /\ Len(CallsFor(a.id)) = max_delivery_attempts
          /\ \A e \in nhist.ended : e.id = a.id => e.how # "delivered"
    /\ stats.notifications_delivered = 0
          => stats.notifications_failed = Cardinality(FailedForGood)

\* notification n is queued in `queues`
Queued(queues, n) == n.notification_id \in QueuedIds(queues)

\* the expiry time of n has passed
ExpiryPassed(n) == n.expires_at # NoExpiry /\ n.expires_at < now

\* the delivery loop hands the head of its batch to _deliver_notification
DeliveryStep == loop.pc = "deliver" /\ loop' # loop

\* C17: when the delivery loop hands over a notification whose expiry time
\* has passed, the broker is not called, the notification is not queued
\* again, and the delivered and failed counters (and the attempt counter)
\* keep their values; a cleanup pass that removes notifications calls no
\* broker and changes no counter either.
C17_ExpiredDroppedSilently ==
    [][ /\ (DeliveryStep /\ ExpiryPassed(Head(loop.batch)))
            => /\ nhist'.published = nhist.published
               /\ ~Queued(notification_queues', Head(loop.batch))
               /\ notification_queues' = notification_queues
               /\ stats' = stats
        /\ (loop' = loop /\ QueuedIds(notification_queues') # QueuedIds(notification_queues)
              /\ stats'.notifications_created = stats.notifications_created)
            => /\ nhist'.published = nhist.published
               /\ stats' = stats
               /\ QueuedIds(notification_queues') \subseteq QueuedIds(notification_queues)
      ]_vars

\* a notification that was attempted, queued again, and had expired when
\* the loop picked it up the next time
C17_Witness ==
    /\ \E e \in nhist.ended : e.how = "expired" /\ CallsFor(e.id) # <<>>
    /\ stats.notifications_failed = 0
    /\ stats.notifications_delivered = 0

\* C18: a notification that was delivered, exhausted its attempts, or had
\* expired and was dropped is in no priority queue and in no batch of the
\* loop from then on, and the broker is never called for it again.
C18_EndedNeverReturns ==
    /\ [](\A e \in nhist.ended : Gone(e.id))
    /\ [][ \A e \in nhist.ended :
              /\ Len(SelectSeq(nhist'.published, LAMBDA c : c.id = e.id))
                   = Len(CallsFor(e.id))
              /\ e.id \notin QueuedIds(notification_queues') ]_vars

\* a notification delivered at a retry, after which the loop slept and
\* started a new cycle
C18_Witness ==
    /\ \E e \in nhist.ended : e.how = "delivered" /\ Len(CallsFor(e.id)) >= 2
    /\ nhist.cycle = <<>>
    /\ loop.pc = "take"
    /\ loop.idx > 1

\* the place of a priority in "urgent, high, medium, low"
Rank(priority) ==
    CASE priority = URGENT -> 1
      [] priority = HIGH -> 2
      [] priority = MEDIUM -> 3
      [] OTHER -> 4

\* the positions of the current cycle at which a notification of `priority`
\* was handed to _deliver_notification
PickedAt(priority) == { i \in 1..Len(nhist.cycle) : nhist.cycle[i].priority = priority }

\* the notifications queued at `priority` that were never attempted
Fresh(priority) ==
    { notification_queues[priority][i].notification_id :
        i \in { j \in 1..Len(notification_queues[priority]) :
                  notification_queues[priority][j].delivery_attempts = 0 } }

\* C16: within a delivery cycle notifications are attempted in the order
\* urgent, high, medium, low; at most 10 are taken per queue, from its head
\* (nothing still waiting in a queue was ahead of a notification taken from
\* it), and when the cycle ends a queue that still holds a notification
\* never attempted gave its full batch of 10.
C16_DrainedByPriority ==
    /\ \A i, j \in 1..Len(nhist.cycle) :
          i < j => Rank(nhist.cycle[i].priority) <= Rank(nhist.cycle[j].priority)
    /\ \A priority \in Priorities :
          /\ Cardinality(PickedAt(priority)) <= 10
          /\ \A i \in PickedAt(priority) :
                \A id \in Fresh(priority) : nhist.cycle[i].id < id
          /\ (loop.pc = "sleep" /\ Fresh(priority) # {})
                => Cardinality(PickedAt(priority)) = 10

\* the end of a cycle that took full batches of urgent and low notifications
\* around a high and a medium one, left one of each behind, and queued a
\* failed one again
C16_Witness ==
    /\ loop.pc = "sleep"
    /\ Cardinality(PickedAt(URGENT)) = 10
    /\ Cardinality(PickedAt(HIGH)) = 1
    /\ Cardinality(PickedAt(MEDIUM)) = 1
    /\ Cardinality(PickedAt(LOW)) = 10
    /\ Fresh(URGENT) # {}
    /\ Fresh(LOW) # {}
    /\ Failures = 1

(* --------------------- claims: stream processor ------------------------ *)
\* the positions of the last 20 events of the input
Analysed == { i \in 1..Len(stream.events) : i > Len(stream.events) - 20 }

\* the 5-minute slice of the event at position i
SliceOf(i) == stream.events[i].timestamp \div 300

\* the number of distinct platforms among the analysed events of slice k
DistinctPlatforms(k) ==
    Cardinality({ stream.events[i].platform : i \in { j \in Analysed : SliceOf(j) = k } })

\* n >= 2 and min(n / 3, 1) >= 0.7, over the denominator 30
Correlated(n) == n >= 2 /\ (IF 10 * n <= 30 THEN 10 * n ELSE 30) >= 21

\* the patterns emitted for slice k
PatternsOf(k) == { j \in 1..Len(stream.patterns) : stream.patterns[j].pattern_id = k }

\* C19: one run of the cross-platform detector emits exactly one pattern
\* for each 5-minute slice of the last 20 events whose distinct-platform
\* count n has n >= 2 and min(n/3, 1) >= 0.7, with a confidence of at least
\* the threshold, and no pattern for any other slice: one pattern for three
\* platforms in a slice, none for a single platform.
C19_OnePatternPerCorrelatedSlice ==
    stream.ran = "detect_cross_platform_correlation" =>
        /\ \A k \in { SliceOf(i) : i \in Analysed } :
              /\ Cardinality(PatternsOf(k)) = IF Correlated(DistinctPlatforms(k)) THEN 1 ELSE 0
              /\ DistinctPlatforms(k) = 3 => Cardinality(PatternsOf(k)) = 1
              /\ DistinctPlatforms(k) = 1 => PatternsOf(k) = {}
        /\ \A j \in 1..Len(stream.patterns) :
              /\ stream.patterns[j].pattern_id \in { SliceOf(i) : i \in Analysed }
              /\ 10 * stream.patterns[j].confidence >= 7 * Scale

\* a run over more than 20 events that emitted one pattern, for a slice of
\* three platforms, and none for a slice of one platform
C19_Witness ==
    /\ stream.ran = "detect_cross_platform_correlation"
    /\ Len(stream.events) > 20
    /\ Len(stream.patterns) = 1
    /\ DistinctPlatforms(stream.patterns[1].pattern_id) = 3
    /\ \E i \in Analysed : DistinctPlatforms(SliceOf(i)) = 1

\* the distinct categories and platforms of the input
DistinctCategories ==
    Cardinality(UNION { CategorySet(stream.events[i].cultural_categories) :
                            i \in 1..Len(stream.events) })

DistinctPlatformsAll ==
    Cardinality({ stream.events[i].platform : i \in 1..Len(stream.events) })

\* min(a / b, 1) over the denominator ScoreUnit
Clipped(a, b) == IF a >= b THEN ScoreUnit ELSE (a * ScoreUnit) \div b

\* C20: the diversity score of a non-empty list of events is the average
\* of min(distinct categories / 10, 1) and min(distinct platforms / 3, 1),
\* each term clipped before the average is taken; the score of an empty
\* list is 0.
C20_DiversityAverageOfClippedTerms ==
    stream.ran = "calculate_diversity_score" =>
        stream.score = IF stream.events = <<>> THEN 0
                       ELSE (Clipped(DistinctCategories, 10)
                               + Clipped(DistinctPlatformsAll, 3)) \div 2

\* C20, as far as it holds: the score is that average whenever there are at
\* most 10 distinct categories and at most 3 distinct platforms, and it is
\* never above 1.
C20_DiversityWithinNormalRange ==
    stream.ran = "calculate_diversity_score" =>
        /\ stream.score <= ScoreUnit
        /\ (DistinctCategories <= 10 /\ DistinctPlatformsAll <= 3)
              => stream.score = IF stream.events = <<>> THEN 0
                                ELSE (Clipped(DistinctCategories, 10)
                                        + Clipped(DistinctPlatformsAll, 3)) \div 2

(* ------------- claims: profile read model and get_events --------------- *)
\* the DiversityScoreUpdated events of agg, in version order
ScoreUpdates(agg) ==
    SelectSeq(ByVersion(log, agg), LAMBDA e : e.event_type = DIVERSITY_SCORE_UPDATED)

\* C26: after the events of an aggregate were projected in version order
\* into the profile read model (here by rebuild_projection), the aggregate's
\* profile exists and its diversity_score is the new_score of the latest
\* DiversityScoreUpdated event, also when that event is the aggregate's
\* first.
C26_ProfileHoldsLatestScore ==
    ( /\ lastOp.op = "rebuild_projection"
      /\ "CulturalProfileProjection" \in lastOp.ran
      /\ ScoreUpdates(lastOp.agg) # <<>> )
    => /\ profiles[lastOp.agg].exists
       /\ profiles[lastOp.agg].diversity_score
            = ScoreUpdates(lastOp.agg)[Len(ScoreUpdates(lastOp.agg))].event_data.val

\* the positions of the table get_events was asked for
InRange(i) ==
    /\ fetched.rows[i].aggregate_id = fetched.agg
    /\ fetched.from_version < fetched.rows[i].version
    /\ (fetched.to_version # -1 => fetched.rows[i].version <= fetched.to_version)

RecentElsewhere(a) ==
    /\ a.id # nhist.last.id
    /\ now - a.at < rate_limits(a.priority)
    /\ (a.user # nhist.last.user \/ a.priority # nhist.last.priority)

\* C28: rate limiting is per subscriber and per priority.  A create whose
\* type is not disabled is accepted whenever every accepted create still
\* within its cool-down was for a different subscriber or a different
\* priority; and an accepted create for S at P leaves the rate-limit
\* verdict for every other subscriber and every other priority as it was.
C28_RateLimitPerSubscriberAndPriority ==
    /\ []( ( /\ nhist.last.op = "create_notification"
             /\ ~(HasPreference /\ ~user_preferences[nhist.last.user][nhist.last.type])
             /\ \A a \in nhist.accepted :
                   (a.id # nhist.last.id /\ now - a.at < rate_limits(a.priority))
                      => RecentElsewhere(a) )
           => nhist.last.id # 0 )
    /\ [][ (nhist'.last.op = "create_notification" /\ nhist'.last.id # 0)
             => \A user \in Subscribers, priority \in Priorities :
                   (user # nhist'.last.user \/ priority # nhist'.last.priority)
                     => check_rate_limit(last_notification_time', user, priority, now)
                          = check_rate_limit(last_notification_time, user, priority, now)
         ]_vars

\* a create accepted for a subscriber who is within the cool-down of
\* another priority
C28_Witness ==
    /\ nhist.last.op = "create_notification"
    /\ nhist.last.id # 0
    /\ \E a \in nhist.accepted :
          RecentElsewhere(a) /\ a.user = nhist.last.user /\ a.at = now

\* how often notification id occurs in the sequence `queue`
Occurrences(queue, id) ==
    Cardinality({ i \in 1..Len(queue) : queue[i].notification_id = id })

\* the places notification `a` is in: the queues of the four priorities,
\* the batch being delivered, and the discarded notifications
Places(a) ==
    Occurrences(notification_queues[LOW], a.id)
      + Occurrences(notification_queues[MEDIUM], a.id)
      + Occurrences(notification_queues[HIGH], a.id)
      + Occurrences(notification_queues[URGENT], a.id)
      + Occurrences(loop.batch, a.id)
      + Cardinality({ e \in nhist.ended : e.id = a.id })

Left(id) == \E e \in nhist.ended : e.id = id

WindowOf(windows, user_id) == DictGet(windows.deque, user_id, <<>>)

\* this step is the handler of topic cultural-events accepting an event
Arrived ==
    /\ shist'.messages = shist.messages + 1
    /\ stream_stats'.events_processed = stream_stats.events_processed + 1

\* C21: each subscriber's event window holds at most 100 events in arrival
\* order: an arriving event is appended at the end of its subscriber's
\* window, a full window first loses its oldest event and nothing else, and
\* the windows of all other subscribers are unchanged.
C21_WindowBoundedFifo ==
    /\ [](\A user_id \in DOMAIN event_windows.deque :
              Len(event_windows.deque[user_id]) <= 100)
    /\ [][ IF Arrived
           THEN LET event == shist'.event
                    old == WindowOf(event_windows, event.user_id)
                    new == WindowOf(event_windows', event.user_id)
                    evicted == IF Len(old) = 100 THEN 1 ELSE 0
                IN  /\ Len(new) = Len(old) + 1 - evicted
                    /\ new[Len(new)] = event
                    /\ \A i \in 1..(Len(new) - 1) : new[i] = old[i + evicted]
                    /\ \A other \in Subscribers \ {event.user_id} :
                           WindowOf(event_windows', other) = WindowOf(event_windows, other)
           ELSE event_windows' = event_windows ]_vars

\* an event of subscriber 1 arrived at a full window, whose oldest event is
\* gone, while subscriber 2 has a window
C21_Witness ==
    /\ shist.last = "process_cultural_event"
    /\ shist.user = 1
    /\ shist.event # Malformed
    /\ Len(WindowOf(event_windows, 1)) = 100
    /\ WindowOf(event_windows, 1)[1].event_id = 2
    /\ WindowOf(event_windows, 2) # <<>>

\* the patterns the detectors emitted so far, over all subscribers
Emitted ==
    UNION { { pattern_cache[user_id][k] : k \in 1..Len(pattern_cache[user_id]) } :
              user_id \in DOMAIN pattern_cache }

\* C22: every pattern emitted by any of the four detectors has a confidence
\* between 0 and 1 inclusive, whatever the window holds.
C22_ConfidenceInUnitInterval ==
    \A pattern \in Emitted : pattern.confidence >= 0 /\ pattern.confidence <= Scale

\* the analysis history of a subscriber
AnalysisOf(hist, user_id) == DictGet(hist.analysis, user_id, Analysis(0, 0))

\* this step is one iteration of the sweep's for loop
SweepStep ==
    /\ sweep.pc = "visit"
    /\ sweep.todo # <<>>
    /\ sweep'.todo = Tail(sweep.todo)

\* C23: the periodic sweep does not re-run the detectors for a subscriber
\* whose window received no event since the detectors last ran on it.
C23_SweepSkipsQuiescentWindows ==
    [][ SweepStep =>
          LET user_id == Head(sweep.todo)
          IN  AnalysisOf(shist, user_id).since = 0
                  => AnalysisOf(shist', user_id).runs = AnalysisOf(shist, user_id).runs ]_vars

\* the patterns cached for a subscriber
CachedFor(cache, user_id) == DictGet(cache, user_id, <<>>)

\* the items a step appended to a list
AppendedTo(before, after) == SubSeq(after, Len(before) + 1, Len(after))

\* this step hands the processor an event its subscriber's window already
\* holds, or sweeps over a window that received no event since the detectors
\* last ran on it
Replayed(user_id) ==
    \/ /\ Arrived
       /\ shist'.event.user_id = user_id
       /\ \E i \in 1..Len(WindowOf(event_windows, user_id)) :
             WindowOf(event_windows, user_id)[i] = shist'.event
    \/ /\ SweepStep
       /\ Head(sweep.todo) = user_id
       /\ AnalysisOf(shist, user_id).since = 0

\* C24: detection is idempotent under duplication and replay: a duplicate
\* event or the re-analysis of an unchanged window adds no pattern to the
\* cache that the cache already holds, and publishes no insight that was
\* already published.
C24_DetectionIdempotent ==
    [][ \A user_id \in Subscribers :
          Replayed(user_id) =>
              LET patterns == AppendedTo(CachedFor(pattern_cache, user_id),
                                         CachedFor(pattern_cache', user_id))
                  published == AppendedTo(insights.topic, insights'.topic)
              IN  /\ \A k \in 1..Len(patterns) :
                         \A j \in 1..Len(CachedFor(pattern_cache, user_id)) :
                             CachedFor(pattern_cache, user_id)[j].pattern_id
                                 # patterns[k].pattern_id
                  /\ \A k \in 1..Len(published) :
                         \A j \in 1..Len(insights.topic) :
                             insights.topic[j].insight_id # published[k].insight_id ]_vars

\* an insight for the subscriber is on topic cultural-insights
InsightFor(user_id) ==
    \E k \in 1..Len(insights.topic) : insights.topic[k].user_id = user_id

\* the notification service was just asked for a cultural insight
\* notification for the subscriber
InsightNotificationAttempted(user_id) ==
    /\ nhist.last.op = "create_notification"
    /\ nhist.last.user = user_id
    /\ nhist.last.type = "cultural_insight"

\* C25: every insight made from a detected pattern eventually reaches the
\* notification service, which then attempts create_notification for that
\* subscriber.
C25_InsightReachesNotificationService ==
    \A user_id \in Subscribers :
        InsightFor(user_id) ~> InsightNotificationAttempted(user_id)

(* -------------- claims: notification service, its calls ----------------- *)
\* the notifications the service holds: queued, or in the batch being
\* delivered
Held ==
    UNION { { notification_queues[priority][i] :
                i \in 1..Len(notification_queues[priority]) } :
            priority \in Priorities }
    \cup { loop.batch[i] : i \in 1..Len(loop.batch) }

\* C31: each notification's delivery_attempts is between 0 and
\* max_delivery_attempts, and the broker is never asked to publish a
\* notification whose attempts already equal the maximum.
C31_AttemptsBounded ==
    /\ \A n \in Held :
           n.delivery_attempts >= 0 /\ n.delivery_attempts <= max_delivery_attempts
    /\ \A k \in 1..Len(nhist.published) :
           nhist.published[k].delivery_attempt - 1 < max_delivery_attempts

\* a notification was handed to the broker on its last attempt and failed
C31_Witness ==
    \E k \in 1..Len(nhist.published) :
        /\ nhist.published[k].delivery_attempt = max_delivery_attempts
        /\ nhist.published[k].outcome = "fail"
        /\ [id |-> nhist.published[k].id, how |-> "exhausted"] \in nhist.ended

(* ------------------------ claims: service lifecycle --------------------- *)
\* the background tasks of both services
AllTasks ==
    UNION { { services[service].tasks[i] : i \in 1..Len(services[service].tasks) } :
            service \in ServiceNames }

\* C32: after stop() is called on a service, each of its background loops
\* finishes at most its current cycle and then terminates: it begins no
\* cycle after the stop, whatever start and stop calls follow.
C32_NoCycleAfterStop == \A task \in AllTasks : ~task.after_stop

(* ------------------ claims: commands and queries ------------------------ *)
\* the last call was a handled UpdateDiversityScoreCommand that appended
ScoreCommandAppended ==
    /\ lastOp.op = "send_command"
    /\ lastOp.cmd.ctype = UpdateDiversityScoreCommand
    /\ Len(log) = Len(lastOp.log_before) + 1

\* C33: the DiversityScoreUpdated event produced by an
\* UpdateDiversityScoreCommand carries new_score equal to the commanded score
\* and old_score equal to the diversity_score the subscriber's profile held
\* when the command ran, 0.0 when no profile exists.
C33_ScoreEventCarriesOldAndNew ==
    ScoreCommandAppended =>
        LET event == log[Len(log)]
            profile == profiles[lastOp.cmd.user_id]
        IN  /\ event.event_type = DIVERSITY_SCORE_UPDATED
            /\ event.aggregate_id = lastOp.cmd.user_id
            /\ event.event_data.val = lastOp.cmd.val
            /\ event.event_data.old =
                   (IF profile.exists THEN profile.diversity_score ELSE 0)

\* a score command ran on a profile that held a score
C33_Witness ==
    /\ ScoreCommandAppended
    /\ profiles[lastOp.cmd.user_id].exists
    /\ profiles[lastOp.cmd.user_id].diversity_score > 0
    /\ log[Len(log)].event_data.old # log[Len(log)].event_data.val

(* ------------------ claims: diversity-change detector ------------------- *)
\* the events of the k-th sub-window of four, counted from the oldest event
SubWindow(events, k) == SubSeq(events, 4 * (k - 1) + 1, 4 * k)

\* the adjacent pairs of sub-windows, named by the earlier one, whose
\* diversity scores differ by more than the 0.5 threshold
PairsAboveThreshold(events) ==
    { i \in 1..((Len(events) \div 4) - 1) :
        AbsDiff(calculate_diversity_score(SubWindow(events, i + 1)),
                calculate_diversity_score(SubWindow(events, i)))
            > diversity_change_threshold }

\* C34: with at least 8 events in the window the diversity-change detector
\* emits one pattern for each pair of adjacent 4-event sub-windows (counted
\* from the oldest event, a trailing remainder ignored) whose diversity
\* scores differ by more than the 0.5 threshold and none for any other pair;
\* with fewer than 8 events it emits nothing.
C34_PatternPerPairAboveThreshold ==
    stream.ran = "detect_diversity_changes" =>
        LET events == stream.events
            patterns == stream.patterns
        IN  IF Len(events) < 8 THEN patterns = <<>>
            ELSE /\ { patterns[k].pattern_id[3] : k \in 1..Len(patterns) }
                        = PairsAboveThreshold(events)
                 /\ Len(patterns) = Cardinality(PairsAboveThreshold(events))

\* the difference between the scores of sub-windows i and i + 1
ChangeAt(events, i) ==
    AbsDiff(calculate_diversity_score(SubWindow(events, i + 1)),
            calculate_diversity_score(SubWindow(events, i)))

\* C34 as amended: with at least 8 events the detector emits, in window
\* order, one pattern for each pair of adjacent 4-event sub-windows whose
\* computed diversity scores differ by at least the 0.5 threshold, carrying
\* the platforms of the later sub-window, and none for any other pair; with
\* fewer than 8 events it emits nothing.
C34_PatternPerPairAtThreshold ==
    stream.ran = "detect_diversity_changes" =>
        LET events == stream.events
            patterns == stream.patterns
            pairs == { i \in 1..((Len(events) \div 4) - 1) :
                         ChangeAt(events, i) >= diversity_change_threshold }
        IN  IF Len(events) < 8 THEN patterns = <<>>
            ELSE /\ Len(patterns) = Cardinality(pairs)
                 /\ { patterns[k].pattern_id[3] : k \in 1..Len(patterns) } = pairs
                 /\ \A k \in 1..Len(patterns) :
                        /\ patterns[k].pattern_type = "diversity_change"
                        /\ patterns[k].platforms
                               = PlatformsOf(SubWindow(events, patterns[k].pattern_id[3] + 1))
                        /\ \A j \in 1..(k - 1) :
                               patterns[j].pattern_id[3] < patterns[k].pattern_id[3]

\* a window with a trailing remainder held a pair that differed by exactly
\* the threshold, which was emitted, and a pair that differed by less
C34_Witness ==
    /\ stream.ran = "detect_diversity_changes"
    /\ Len(stream.events) % 4 # 0
    /\ Len(stream.events) >= 12
    /\ Len(stream.patterns) = 1
    /\ ChangeAt(stream.events, stream.patterns[1].pattern_id[3]) = diversity_change_threshold
    /\ \E i \in 1..2 : ChangeAt(stream.events, i) < diversity_change_threshold

(* ------------------ claims: notification service calls ------------------ *)
\* the step is a create_notification call that returned no id
SuppressedCreateStep ==
    /\ nhist'.last.op = "create_notification"
    /\ nhist'.last.id = 0

\* C36: a create_notification call that is suppressed, by the cool-down or
\* by the subscriber's preference, changes nothing: no cool-down is
\* restarted or extended, every queue and the notifications_created counter
\* (with the other counters and the stored preferences) stay as they were.
C36_SuppressedCreateChangesNothing ==
    [][ SuppressedCreateStep =>
          UNCHANGED <<notification_queues, last_notification_time, stats,
                      user_preferences, now, loop>> ]_vars

\* the last create was suppressed although time had passed since the
\* cool-down of its subscriber and priority began, with a notification queued
C36_Witness ==
    /\ nhist.last.op = "create_notification"
    /\ nhist.last.id = 0
    /\ nhist.last.user \in DOMAIN last_notification_time
    /\ nhist.last.priority \in DOMAIN last_notification_time[nhist.last.user]
    /\ last_notification_time[nhist.last.user][nhist.last.priority] < now
    /\ QueuedIds(notification_queues) # {}

\* the last call listed notifications
ListedLast == nhist.last.op = "get_user_notifications"

\* C35: get_user_notifications(S, limit, unread_only) returns only
\* notifications whose subscriber is S, at most limit of them (none for a
\* limit below one), ordered newest created first, and when unread_only is set
\* it returns none that has been marked read.
C35_ListedForSubscriber ==
    ListedLast =>
        LET result == nhist.last.result
        IN  /\ \A i \in 1..Len(result) : result[i].user_id = nhist.last.user
            /\ Len(result) <= Max({nhist.last.limit, 0})
            /\ \A i, j \in 1..Len(result) :
                  i < j => result[i].created_at >= result[j].created_at
            /\ nhist.last.unread_only => \A i \in 1..Len(result) : ~result[i].read

(* ------------------- claims: the mediator's registry -------------------- *)
\* the last call was send_command with a command of an unregistered class
UnregisteredCommand ==
    lastOp.op = "send_command" /\ lastOp.cmd.ctype \notin command_handlers

\* the last call was send_query with a query of an unregistered class
UnregisteredQuery ==
    /\ lastOp.op = "send_query"
    /\ fetched.op = "send_query"
    /\ fetched.query.qtype \notin query_handlers

\* the step is a send_command or send_query call that raised ValueError
RaisedNoHandlerStep ==
    /\ lastOp' # lastOp \/ fetched' # fetched
    /\ lastOp'.op \in {"send_command", "send_query"}
    /\ lastOp'.result = "ValueError"

\* C38: send_command (send_query) called with a command (query) whose class
\* has no registered handler raises before anything is appended or
\* dispatched, leaving the event log and every projection unchanged; the
\* registered classes never change after the mediator is constructed.
C38_UnregisteredTypeRaises ==
    /\ [](UnregisteredCommand =>
            /\ lastOp.result = "ValueError"
            /\ ~lastOp.dispatched /\ lastOp.ran = {}
            /\ log = lastOp.log_before)
    /\ [](UnregisteredQuery =>
            /\ lastOp.result = "ValueError"
            /\ fetched.value = <<>>
            /\ log = fetched.rows)
    /\ [](mediator = CQRSMediator)
    /\ [][ /\ mediator' = mediator
           /\ RaisedNoHandlerStep =>
                 UNCHANGED <<log, profiles, timeline_cache, network_cache>> ]_vars

\* a query of an unregistered class was sent when events were stored and a
\* profile was projected
C38_Witness ==
    /\ UnregisteredQuery
    /\ lastOp.result = "ValueError"
    /\ log # <<>>
    /\ \E u \in Aggregates : profiles[u].exists

\* the recommendation events stored for the user, oldest first
RecommendationsOf(rows, user) ==
    SelectSeq(rows, LAMBDA e : /\ e.event_type = RECOMMENDATION_GENERATED
                               /\ e.aggregate_id = user)

\* C39: GetRecommendationsQuery(user, limit) returns the user's most recent
\* RecommendationGenerated events, newest first, exactly min(limit, n) of
\* them where n is the number of such events the user has, whatever
\* recommendation events other users have.
C39_RecommendationsOfUser ==
    (fetched.op = "send_query" /\ fetched.query.qtype = "GetRecommendationsQuery") =>
        LET mine == RecommendationsOf(fetched.rows, fetched.query.user_id)
            n == Len(mine)
            value == fetched.value
        IN  /\ Len(value) = Min(fetched.query.limit, n)
            /\ \A k \in 1..Len(value) : value[k].id = mine[n + 1 - k].event_id

(* ------------------- claims: notifications marked read ------------------ *)
\* the step is a mark_notification_read call
MarkReadStep ==
    /\ nhist'.last.op = "mark_notification_read"
    /\ nhist'.last # nhist.last

\* n is the notification the call names: its id, of its subscriber
Named(n, call) == n.user_id = call.user /\ n.notification_id = call.id

\* C37: mark_notification_read(S, id) returns True and sets the read flag
\* only when a notification with that id belonging to S is in a queue;
\* otherwise it returns False and changes no notification; in either case
\* delivered, delivery_attempts, the membership and order of every queue,
\* the batch being delivered and every notification of another subscriber
\* stay as they were.
C37_MarkReadFrame ==
    [][ MarkReadStep =>
          LET call == nhist'.last
              held == \E priority \in Priorities :
                         \E i \in 1..Len(notification_queues[priority]) :
                             Named(notification_queues[priority][i], call)
          IN  /\ call.result = held
              /\ \A priority \in Priorities :
                    /\ Len(notification_queues'[priority])
                          = Len(notification_queues[priority])
                    /\ \A i \in 1..Len(notification_queues[priority]) :
                          LET n == notification_queues[priority][i]
                          IN  notification_queues'[priority][i]
                                = IF Named(n, call) THEN [n EXCEPT !.read = TRUE] ELSE n
              /\ UNCHANGED <<loop, stats, last_notification_time, user_preferences>>
      ]_vars

\* a notification that was queued again after a failed delivery was marked
\* read while an unread notification of another subscriber was queued
C37_Witness ==
    /\ nhist.last.op = "mark_notification_read"
    /\ nhist.last.result
    /\ \E priority \in Priorities :
          \E i, j \in 1..Len(notification_queues[priority]) :
              /\ Named(notification_queues[priority][i], nhist.last)
              /\ notification_queues[priority][i].read
              /\ notification_queues[priority][i].delivery_attempts > 0
              /\ notification_queues[priority][j].user_id # nhist.last.user
              /\ ~notification_queues[priority][j].read

====
